---- MODULE Spec2Model ----
(***************************************************************************)
(* The tool-calling orchestration loop of the MCP client (MCPClient.ask)   *)
(* in its three variants, and the REST gateway that runs it per session.   *)
(*                                                                         *)
(*   "anthropic"  src/unnamed/part_001  class MCPClient (lines 562-879)    *)
(*   "openai"     src/oai2.ts           class MCPClient (lines 532-876)    *)
(*   "openai1"    src/oai2.ts           class MCPClient (lines 38-...),    *)
(*                the first variant, whose ask reads the raw completion    *)
(*                (response.choices[0].message)                            *)
(*                                                                         *)
(* Seven specifications: Spec (one client, one caller), GatewaySpec (the    *)
(* REST gateway with its sessions), QuerySpec (the gateway with its read   *)
(* routes), SweepSpec (the gateway with its cleanup task run by its        *)
(* timer), ConversionSpec (the schema conversions and the result           *)
(* normalization as functions of their input), AccessorSpec (a client      *)
(* whose caller reads its tools) and OperationsSpec (a client whose caller *)
(* uses every operation of the class).                                     *)
(*                                                                         *)
(* Texts are sequences of tokens: "" is <<>>, a + b is a \o b.  An await   *)
(* of an external call (provider endpoint, tool server) is a pair of       *)
(* steps: the step that issues the call, and the step that receives its    *)
(* answer.  Everything the code does between two awaits is one step.       *)
(***************************************************************************)
EXTENDS Integers, Sequences, FiniteSets, TLC

\* ---------------------------------------------------------------- bounds

\* Requests sent to the provider endpoint, over all asks.
MaxProviderCalls == 4
\* HTTP requests the gateway receives plus requests its clients send to
\* the provider endpoint.
MaxWork == 4
\* Tools in a listing given to a schema conversion.
MaxTools == 2
\* The same work as MaxWork counts, while the cleanup task runs by its timer.
MaxSweepWork == 3
\* The same work as MaxWork counts, while the gateway's read routes are used.
MaxQueryWork == 3
\* Requests sent to the provider endpoint while a caller holds the array
\* the tools accessor returned.
MaxAccessorCalls == 2
\* Operations other than ask that the caller of a client invokes.
MaxOps == 3
\* Requests sent to the provider endpoint by the asks of such a caller.
MaxOpsCalls == 1

\* ------------------------------------------------------------- constants

Variants == {"anthropic", "openai", "openai1"}

\* JavaScript null as a content value (no text ever holds this token).
NULL == <<"<null>">>

\* JavaScript truthiness of a string-or-null value.
Truthy(s) == s # NULL /\ s # <<>>

\* a || b
OrElse(a, b) == IF Truthy(a) THEN a ELSE b

Questions == {<<"what is 2+2">>}

\* ------------------------------------------------------- message formats

\* One content block of an Anthropic message (AnthropicMessage.content[i]).
Blk(type, text, id, name, content, is_error) ==
  [type |-> type, text |-> text, id |-> id, name |-> name,
   tool_use_id |-> 0, content |-> content, is_error |-> is_error]

TextBlock(t) == Blk("text", t, 0, "", <<>>, FALSE)
ToolUseBlock(id, name) == Blk("tool_use", <<>>, id, name, <<>>, FALSE)

\* One entry of an OpenAI message's tool_calls; args is "ok" when the
\* arguments string is valid JSON and "bad" when JSON.parse throws on it.
ToolCall(id, name, args) == [id |-> id, name |-> name, args |-> args]

\* One entry of conversationHistory, in either format.  form is "string"
\* when content is a string (or null) and "array" when it is a block list.
Msg(role, form, content, blocks, has_tool_calls, tool_calls, tool_call_id) ==
  [role |-> role, form |-> form, content |-> content, blocks |-> blocks,
   has_tool_calls |-> has_tool_calls, tool_calls |-> tool_calls,
   tool_call_id |-> tool_call_id]

\* ---------------------------------------------------------- environment

\* The tools the server lists, and a name it does not offer.
KnownTool == "calculator"
TimeTool == "get_time"
UnknownTool == "no_such_tool"

\* Call ids are issued by the provider: fresh for every reply.  n is the
\* length of the message list the reply answers, k the position of the call.
CallId(n, k) == n * 10 + k

\* A provider answer as the client's fetch sees it.  ok is response.ok.
\* Anthropic answers carry stop_reason and content; OpenAI answers carry
\* message.content (text) and message.tool_calls.
Reply(ok, stop_reason, content, text, has_tool_calls, tool_calls) ==
  [ok |-> ok, stop_reason |-> stop_reason, content |-> content, text |-> text,
   has_tool_calls |-> has_tool_calls, tool_calls |-> tool_calls]

NoReply == Reply(TRUE, "", <<>>, NULL, FALSE, <<>>)
FailedReply == Reply(FALSE, "", <<>>, NULL, FALSE, <<>>)

AnthropicFinals ==
  { Reply(TRUE, "end_turn", <<>>, NULL, FALSE, <<>>),
    Reply(TRUE, "end_turn",
          <<TextBlock(<<"The answer ">>), TextBlock(<<"is 4.">>)>>,
          NULL, FALSE, <<>>) }

AnthropicToolUses(n) ==
  { Reply(TRUE, "tool_use", <<ToolUseBlock(CallId(n, 1), KnownTool)>>,
          NULL, FALSE, <<>>),
    Reply(TRUE, "tool_use",
          <<TextBlock(<<"Let me check.">>),
            ToolUseBlock(CallId(n, 1), TimeTool),
            ToolUseBlock(CallId(n, 2), UnknownTool),
            ToolUseBlock(CallId(n, 3), TimeTool)>>,
          NULL, FALSE, <<>>),
    Reply(TRUE, "tool_use", <<TextBlock(<<"Thinking.">>)>>, NULL, FALSE, <<>>) }

OpenAIFinals ==
  { Reply(TRUE, "", <<>>, NULL, FALSE, <<>>),
    Reply(TRUE, "", <<>>, <<>>, FALSE, <<>>),
    Reply(TRUE, "", <<>>, <<"The answer is 4.">>, FALSE, <<>>) }

OpenAIToolCalls(n) ==
  { Reply(TRUE, "", <<>>, NULL, TRUE,
          <<ToolCall(CallId(n, 1), KnownTool, "ok")>>),
    Reply(TRUE, "", <<>>, <<"Let me check.">>, TRUE,
          <<ToolCall(CallId(n, 1), TimeTool, "ok"),
            ToolCall(CallId(n, 2), KnownTool, "bad"),
            ToolCall(CallId(n, 3), UnknownTool, "ok")>>),
    Reply(TRUE, "", <<>>, <<"Thinking.">>, TRUE, <<>>) }

\* The reply is one of the tool-requesting ones.
RequestsTools(v, r) ==
  r.ok /\ (IF v = "anthropic" THEN r.stop_reason = "tool_use" ELSE r.has_tool_calls)

\* The answers the provider may give to a request of n messages, when it
\* is (tools = TRUE) or is not prepared to request tools.
ProviderReplies(v, n, tools) ==
  {FailedReply}
    \cup (IF v = "anthropic" THEN AnthropicFinals ELSE OpenAIFinals)
    \cup (IF ~tools THEN {}
          ELSE IF v = "anthropic" THEN AnthropicToolUses(n)
          ELSE OpenAIToolCalls(n))

\* A tool-server answer as client.callTool sees it: it rejects (threw), or
\* it resolves to a payload.  kind is the shape of payload.content.
Payload(kind, items, str, isError) ==
  [kind |-> kind, items |-> items, str |-> str, isError |-> isError]

Outcome(threw, message, payload) ==
  [threw |-> threw, message |-> message, payload |-> payload]

NoPayload == Payload("absent", <<>>, <<>>, FALSE)

ToolOutcomes(name) ==
  IF name = KnownTool
  THEN { Outcome(FALSE, <<>>,
                 Payload("array", <<TextBlock(<<"Result: 4">>)>>, <<>>, FALSE)),
         Outcome(FALSE, <<>>,
                 Payload("array",
                         <<TextBlock(<<"Error: Cannot divide by zero">>)>>,
                         <<>>, TRUE)),
         Outcome(TRUE, <<"Connection closed">>, NoPayload) }
  ELSE IF name = TimeTool
  THEN { Outcome(FALSE, <<>>,
                 Payload("array", <<TextBlock(<<"Current time: 12:00">>)>>, <<>>, FALSE)),
         Outcome(TRUE, <<"Connection closed">>, NoPayload) }
  ELSE { Outcome(TRUE, <<"Unknown tool: ">> \o <<name>>, NoPayload) }

\* ------------------------------------------------------------ the client

\* The fields of an MCPClient object.
NewClient ==
  [isConnected |-> FALSE, availableTools |-> <<>>, conversationHistory |-> <<>>]

\* The locals of one invocation of ask, and where it is suspended (pc):
\*   "idle"           not started
\*   "awaitProvider"  suspended in callAnthropic / callOpenAI (fetch)
\*   "awaitTool"      suspended in callTool (client.callTool), call number idx
\*   "returned"       ask returned retval
\*   "threw"          ask threw error
\* tools is the local anthropicTools / openaiTools.  base and calls record
\* the history at the start of the ask and the external calls the ask has
\* made, for the properties below.
NewFrame ==
  [pc |-> "idle", question |-> <<>>, tools |-> <<>>, response |-> NoReply,
   idx |-> 0, toolResults |-> <<>>, rounds |-> 0, retval |-> <<>>,
   error |-> <<>>, base |-> <<>>, calls |-> <<>>]

St(c, f) == [c |-> c, f |-> f]

\* Mutant of RequestBody: the tools field is always set.
RequestBodyWithTools(messages, tools) ==
  [messages |-> messages, has_tools |-> TRUE, tools |-> tools]

\* requestBody of callAnthropic / callOpenAI: has_tools says whether the
\* body has a tools field at all.
RequestBody(messages, tools) ==
  [messages |-> messages, has_tools |-> Len(tools) > 0,
   tools |-> IF Len(tools) > 0 THEN tools ELSE <<>>]

NoBody == [messages |-> <<>>, has_tools |-> FALSE, tools |-> <<>>]

\* An external call of an ask: a provider request with its body, or a
\* client.callTool for the call id and tool name.
ExtCall(kind, id, name) ==
  [kind |-> kind, id |-> id, name |-> name, status |-> "pending", body |-> NoBody,
   isError |-> FALSE]

\* The last external call of the frame is answered.
Answered(f, status) ==
  [f EXCEPT !.calls[Len(f.calls)].status = status]

\* The last tool call of the frame resolved with a payload.
AnsweredWith(f, payload) ==
  [f EXCEPT !.calls[Len(f.calls)].status = "ok",
            !.calls[Len(f.calls)].isError = payload.isError]

Throw(c, f, err) == St(c, [f EXCEPT !.pc = "threw", !.error = err])

\* Mutant of PushUser: the question starts the history anew.
PushUserAnew(c, q) ==
  [c EXCEPT !.conversationHistory =
     <<Msg("user", "string", q, <<>>, FALSE, <<>>, 0)>>]

\* conversationHistory.push({role: 'user', content: question})
PushUser(c, q) ==
  [c EXCEPT !.conversationHistory =
     Append(@, Msg("user", "string", q, <<>>, FALSE, <<>>, 0))]

\* The assistant message pushed at the top of the loop body.
ToolRequestMsg(v, r) ==
  IF v = "anthropic"
  THEN Msg("assistant", "array", <<>>, r.content, FALSE, <<>>, 0)
  ELSE Msg("assistant", "string", r.text, <<>>, TRUE, r.tool_calls, 0)

\* The assistant message pushed after the loop.
FinalMsg(v, r) ==
  IF v = "anthropic"
  THEN Msg("assistant", "array", <<>>, r.content, FALSE, <<>>, 0)
  ELSE Msg("assistant", "string", r.text, <<>>, FALSE, <<>>, 0)

RECURSIVE ConcatText(_)
\* for (block of response.content) if (block.type === 'text') final += block.text
ConcatText(blocks) ==
  IF blocks = <<>> THEN <<>>
  ELSE (IF Head(blocks).type = "text" THEN Head(blocks).text ELSE <<>>)
         \o ConcatText(Tail(blocks))

\* The value ask returns for the final response.
FinalText(v, r) ==
  CASE v = "anthropic" -> ConcatText(r.content)
    [] v = "openai"    -> OrElse(r.text, <<>>)
    [] v = "openai1"   -> OrElse(r.text, <<"No response content">>)

\* JSON.stringify of a content item / of a content object / of the result.
StringifyItem(item) == <<"{type:", item.type, "}">>
StringifyContent(p) == <<"{content:">> \o p.str \o <<"}">>
StringifyResult(p) ==
  <<"{result:", p.kind, IF p.isError THEN "isError" ELSE "", "}">>

RECURSIVE JoinItems(_)
\* content.map(item => item.type === 'text' ? item.text : JSON.stringify(item)).join('\n')
JoinItems(items) ==
  IF items = <<>> THEN <<>>
  ELSE LET one == IF Head(items).type = "text" THEN Head(items).text
                  ELSE StringifyItem(Head(items))
       IN  IF Len(items) = 1 THEN one
           ELSE one \o <<"\n">> \o JoinItems(Tail(items))

\* if (toolResult.content): "absent" is undefined, an empty string is falsy,
\* an array (even empty) and an object are truthy.
ContentTruthy(p) ==
  CASE p.kind = "absent" -> FALSE
    [] p.kind = "string" -> Truthy(p.str)
    [] OTHER -> TRUE

\* "Handle the MCP tool result format": resultContent of a tool result.
NormalizeResult(p) ==
  IF ContentTruthy(p)
  THEN CASE p.kind = "array"  -> JoinItems(p.items)
         [] p.kind = "string" -> p.str
         [] OTHER             -> StringifyContent(p)
  ELSE StringifyResult(p)

\* Mutant of ErrorText: the message without the "Error: " prefix.
ErrorTextBare(message) == message

\* `Error: ${error.message}`
ErrorText(message) == <<"Error: ">> \o message

ToolResultBlock(id, content, is_error) ==
  [Blk("tool_result", <<>>, 0, "", content, is_error) EXCEPT !.tool_use_id = id]

\* Mutant of RecordResult: the result is tagged with the position of the
\* call in the request list instead of its call id.
RecordResultByIndex(v, c, f, id, text) ==
  IF v = "anthropic"
  THEN St(c, [f EXCEPT !.toolResults = Append(@, ToolResultBlock(f.idx, text, FALSE))])
  ELSE St([c EXCEPT !.conversationHistory =
             Append(@, Msg("tool", "string", text, <<>>, FALSE, <<>>, f.idx))], f)

\* Mutant of RecordResult: a result goes to the front of the results
\* (unshift for push).
RecordResultFirst(v, c, f, id, text) ==
  IF v = "anthropic"
  THEN St(c, [f EXCEPT !.toolResults = <<ToolResultBlock(id, text, FALSE)>> \o @])
  ELSE St([c EXCEPT !.conversationHistory =
             <<Msg("tool", "string", text, <<>>, FALSE, <<>>, id)>> \o @], f)

\* The try branch's record of a result: toolResults.push({type: 'tool_result',
\* tool_use_id, content}) / conversationHistory.push({role: 'tool', content,
\* tool_call_id}).
RecordResult(v, c, f, id, text) ==
  IF v = "anthropic"
  THEN St(c, [f EXCEPT !.toolResults = Append(@, ToolResultBlock(id, text, FALSE))])
  ELSE St([c EXCEPT !.conversationHistory =
             Append(@, Msg("tool", "string", text, <<>>, FALSE, <<>>, id))], f)

\* Mutant of RecordError: the result of a failed call is not marked.
RecordErrorUnmarked(v, c, f, id, message) ==
  IF v = "anthropic"
  THEN St(c, [f EXCEPT !.toolResults =
                Append(@, ToolResultBlock(id, ErrorText(message), FALSE))])
  ELSE St([c EXCEPT !.conversationHistory =
             Append(@, Msg("tool", "string", ErrorText(message), <<>>, FALSE, <<>>, id))], f)

\* The catch branch's record of a failed call; only the Anthropic format
\* carries is_error.
RecordError(v, c, f, id, message) ==
  IF v = "anthropic"
  THEN St(c, [f EXCEPT !.toolResults =
                Append(@, ToolResultBlock(id, ErrorText(message), TRUE))])
  ELSE St([c EXCEPT !.conversationHistory =
             Append(@, Msg("tool", "string", ErrorText(message), <<>>, FALSE, <<>>, id))], f)

\* Mutant of IssueProvider: the request carries the turns of this ask only.
IssueProviderOwnTurns(c, f) ==
  St(c, [f EXCEPT !.pc = "awaitProvider",
                  !.calls = Append(@, [ExtCall("provider", 0, "") EXCEPT
                                         !.body = RequestBody(
                                            SubSeq(c.conversationHistory,
                                                   Len(f.base) + 1,
                                                   Len(c.conversationHistory)),
                                            f.tools)])])

\* await this.callAnthropic(this.conversationHistory, tools): the fetch is
\* issued and ask is suspended.
IssueProvider(c, f) ==
  St(c, [f EXCEPT !.pc = "awaitProvider",
                  !.calls = Append(@, [ExtCall("provider", 0, "") EXCEPT
                                         !.body = RequestBody(c.conversationHistory,
                                                              f.tools)])])

\* "Add final assistant response to history" and return.
Finish(v, c, f) ==
  St([c EXCEPT !.conversationHistory = Append(@, FinalMsg(v, f.response))],
     [f EXCEPT !.pc = "returned", !.retval = FinalText(v, f.response)])

\* After the for loop over the requested calls.
AfterDispatch(v, c, f) ==
  IF v = "anthropic"
  THEN IF Len(f.toolResults) > 0
       THEN IssueProvider(
              [c EXCEPT !.conversationHistory =
                 Append(@, Msg("user", "array", <<>>, f.toolResults, FALSE, <<>>, 0))],
              [f EXCEPT !.rounds = @ + 1])
       ELSE Finish(v, c, f)   \* break
  ELSE IssueProvider(c, [f EXCEPT !.rounds = @ + 1])

\* The list the for loop walks.
Requested(v, r) == IF v = "anthropic" THEN r.content ELSE r.tool_calls

\* Mutant of IssueTool: the call is issued but not awaited; ask goes on to
\* the provider round with the tool call still unanswered.
IssueToolNoAwait(c, f, i, id, name) ==
  St(c, [f EXCEPT !.pc = "awaitProvider", !.idx = i,
                  !.calls = @ \o <<ExtCall("tool", id, name),
                                   ExtCall("provider", 0, "")>>])

\* callTool once the client is known to be connected: client.callTool is
\* issued and ask is suspended.
IssueTool(c, f, i, id, name) ==
  St(c, [f EXCEPT !.pc = "awaitTool", !.idx = i,
                  !.calls = Append(@, ExtCall("tool", id, name))])

\* Mutant of ArgsParseFail: the arguments are passed on unparsed.
ArgsParseNever(v, it) == FALSE

\* JSON.parse(toolCall.function.arguments) throws (OpenAI-style loops only;
\* an Anthropic tool_use block carries its input as an object).
ArgsParseFail(v, it) == v # "anthropic" /\ it.args = "bad"

RECURSIVE Dispatch(_, _, _, _)
\* The for loop from item i on, up to the next await or the end of the list.
Dispatch(v, c, f, i) ==
  LET items == Requested(v, f.response) IN
  IF i > Len(items) THEN AfterDispatch(v, c, f)
  ELSE LET it == items[i] IN
       IF v = "anthropic" /\ it.type # "tool_use" THEN Dispatch(v, c, f, i + 1)
       ELSE IF ArgsParseFail(v, it)
       THEN LET s == RecordError(v, c, f, it.id, <<"Unexpected token in JSON">>)
            IN  Dispatch(v, s.c, s.f, i + 1)
       ELSE IF ~c.isConnected
       THEN LET s == RecordError(v, c, f, it.id, <<"Client is not connected">>)
            IN  Dispatch(v, s.c, s.f, i + 1)
       ELSE IssueTool(c, f, i, it.id, it.name)

\* The while condition.
LoopCond(v, r) ==
  CASE v = "anthropic" -> r.stop_reason = "tool_use"
    [] v = "openai"    -> r.has_tool_calls /\ Len(r.tool_calls) > 0
    [] v = "openai1"   -> r.has_tool_calls

\* The while loop from its condition on, with f.response just received.
LoopTop(v, c, f) ==
  IF LoopCond(v, f.response)
  THEN Dispatch(v,
                [c EXCEPT !.conversationHistory =
                   Append(@, ToolRequestMsg(v, f.response))],
                [f EXCEPT !.toolResults = <<>>],
                1)
  ELSE Finish(v, c, f)

\* Mutant of ProviderFailed: the request is sent again.
ProviderFailedRetry(v, c, f, r) == IssueProvider(c, f)

\* Mutant of ProviderFailed: the turns of the ask are rolled back.
ProviderFailedRollback(v, c, f, r) ==
  Throw([c EXCEPT !.conversationHistory = f.base], f, <<"API error: ">>)

\* if (!response.ok) throw new Error(`... API error: ...`); ask's catch
\* logs and rethrows.
ProviderFailed(v, c, f, r) ==
  Throw(c, f, <<"API error: ">>)

\* ask resumes with the provider's answer r.
OnProviderReply(v, c, f, r) ==
  IF ~r.ok THEN ProviderFailed(v, c, Answered(f, "failed"), r)
  ELSE LoopTop(v, c, [Answered(f, "ok") EXCEPT !.response = r])

\* ask resumes with the tool server's answer o to call number f.idx.
OnToolReply(v, c, f, o) ==
  LET it == Requested(v, f.response)[f.idx]
      s  == IF o.threw
            THEN RecordError(v, c, Answered(f, "failed"), it.id,
                             <<"Tool call failed: ", "Error: ">> \o o.message)
            ELSE RecordResult(v, c, AnsweredWith(f, o.payload), it.id,
                              NormalizeResult(o.payload))
  IN  Dispatch(v, s.c, s.f, f.idx + 1)

\* An entry of the tool listing.  description is a text, or NULL when the
\* entry has none; inputSchema names a schema object, or is "absent".
Tool(name, description, inputSchema) ==
  [name |-> name, description |-> description, inputSchema |-> inputSchema]

\* The tool listing of the server: calculatorTool, and a tool that gives
\* neither description nor inputSchema.
ServerTools ==
  <<Tool(KnownTool, <<"Perform basic mathematical calculations">>, "calculatorSchema"),
    Tool("bare", NULL, "absent")>>

\* { type: 'object', properties: {} } and the OpenAI default, which adds
\* required: [].
AnthropicEmptySchema == "{type:object,properties:{}}"
OpenAIEmptySchema == "{type:object,properties:{},required:[]}"

\* tool.inputSchema || dflt
SchemaOrElse(inputSchema, dflt) == IF inputSchema # "absent" THEN inputSchema ELSE dflt

\* An entry of a provider schema list: name, description, and the schema,
\* written parameters in both formats (Anthropic: input_schema; OpenAI:
\* function.parameters).
convertMCPToolsToAnthropic(tools) ==
  [i \in 1..Len(tools) |->
     [name |-> tools[i].name,
      description |-> OrElse(tools[i].description, <<"Execute ", tools[i].name>>),
      parameters |-> SchemaOrElse(tools[i].inputSchema, AnthropicEmptySchema)]]

convertMCPToolsToOpenAI(tools) ==
  [i \in 1..Len(tools) |->
     [name |-> tools[i].name,
      description |-> OrElse(tools[i].description, <<"Execute ", tools[i].name>>),
      parameters |-> SchemaOrElse(tools[i].inputSchema, OpenAIEmptySchema)]]

\* The direct transformation that is offered next to the client classes.
transformMCPToolsToOpenAI(mcpTools) ==
  [i \in 1..Len(mcpTools) |->
     [name |-> mcpTools[i].name,
      description |-> mcpTools[i].description,
      parameters |-> mcpTools[i].inputSchema]]

\* const anthropicTools / openaiTools = this.convertMCPToolsTo...()
ConvertTools(v, c) ==
  IF v = "anthropic" THEN convertMCPToolsToAnthropic(c.availableTools)
  ELSE convertMCPToolsToOpenAI(c.availableTools)

\* ask(question) up to its first await.
AskBegin(v, c, q) ==
  IF ~c.isConnected
  THEN Throw(c, [NewFrame EXCEPT !.question = q, !.base = c.conversationHistory],
             <<"Client is not connected">>)
  ELSE IssueProvider(PushUser(c, q),
                     [NewFrame EXCEPT !.question = q,
                                      !.tools = ConvertTools(v, c),
                                      !.base = c.conversationHistory])

\* Mutant of ClearedHistory: the last turn survives the clear.
ClearedHistoryKeepsLast(c) ==
  [c EXCEPT !.conversationHistory = IF @ = <<>> THEN <<>> ELSE <<@[Len(@)]>>]

\* clearHistory()
ClearedHistory(c) == [c EXCEPT !.conversationHistory = <<>>]

\* Mutant of Connected: a failed listing leaves the catalog as it was.
ConnectedKeepsCatalog(c, transportOk, listOk) ==
  IF c.isConnected \/ ~transportOk THEN c
  ELSE [c EXCEPT !.isConnected = TRUE,
                 !.availableTools = IF listOk THEN ServerTools ELSE @]

\* connect(): client.connect(transport) succeeds or rejects (transportOk);
\* then loadTools(), whose listing succeeds or rejects (listOk).
Connected(c, transportOk, listOk) ==
  IF c.isConnected \/ ~transportOk THEN c
  ELSE [c EXCEPT !.isConnected = TRUE,
                 !.availableTools = IF listOk THEN ServerTools ELSE <<>>]

\* disconnect()
Disconnected(c) ==
  IF c.isConnected THEN [c EXCEPT !.isConnected = FALSE] ELSE c

\* ------------------------------------------------- one client, one caller

VARIABLES
  variant,   \* which MCPClient class the client is an object of
  client,    \* the client object
  frame,     \* the current (or last) invocation of ask
  providerCalls, \* number of requests sent to the provider so far
  heap,      \* the gateway's session objects, in order of creation
  sessions,  \* the gateway's session map: session id -> index in heap, or 0
  reqs,      \* the gateway's HTTP requests and where their handlers are
  mcpTools,  \* a tool listing given to a schema conversion
  providerTools, \* the conversion applied last, and what it returned
  toolResult,    \* a tool result given to the result normalization
  resultContent, \* the text the normalization made of it
  toolsCopy,     \* the array a caller got from the tools accessor
  op             \* the operation other than ask a caller invoked last

gwVars == <<heap, sessions, reqs>>
cvVars == <<mcpTools, providerTools, toolResult, resultContent, toolsCopy, op>>
vars == <<variant, client, frame, providerCalls, heap, sessions, reqs,
          mcpTools, providerTools, toolResult, resultContent, toolsCopy, op>>

log == client.conversationHistory

\* The pending provider request of the frame offers tools: only then can
\* the provider's answer request one.
OffersTools(f) == f.calls[Len(f.calls)].body.has_tools

\* 1 when the frame's last external call is of the kind and unanswered.
Pending(f, kind) ==
  IF /\ f.calls # <<>>
     /\ f.calls[Len(f.calls)].kind = kind
     /\ f.calls[Len(f.calls)].status = "pending"
  THEN 1 ELSE 0

SessionIds == {"s1", "s2"}

\* Every HTTP request but the last can be a chat that sends at least one
\* request to the provider.
ReqIds == 1..(MaxWork - 1)

\* The session ids a new request may name.  Session ids are interchangeable:
\* the first id that any request names is called "s1".
FreshIds ==
  IF \E q \in ReqIds : reqs[q].sid = "s1" THEN SessionIds ELSE {"s1"}

\* An HTTP request, or a run of the cleanup task for one expired session
\* (kind "chat", "clear", "delete", "sweep"): pc is "new" (not yet
\* received), "creating" (handleChat suspended in createMCPAssistant),
\* "asking" (suspended in client.ask), "closing" (suspended in
\* client.disconnect) or "done" (answered with status and body); obj is the
\* handler's session, found what sessions.get returned to it.  body is the
\* response's error, message or response field, details its details field
\* (NULL when it has none), sent the number of responses sent.
NewRequest ==
  [pc |-> "new", kind |-> "", sid |-> "", message |-> <<>>, found |-> 0,
   obj |-> 0, f |-> NewFrame, status |-> 0, body |-> <<>>, details |-> NULL,
   sent |-> 0, tools |-> <<>>, count |-> 0, history |-> <<>>, length |-> 0,
   toolsUsed |-> <<>>, conversationLength |-> 0]

\* res.status(status).json({...}): the handler answers and is over.
Respond(req, status, body, details) ==
  [req EXCEPT !.pc = "done", !.status = status, !.body = body,
              !.details = details, !.sent = @ + 1]

GatewayIdle ==
  /\ heap = <<>>
  /\ sessions = [sid \in SessionIds |-> 0]
  /\ reqs = [r \in ReqIds |-> NewRequest]

\* No gateway: the client is used by its caller directly.
NoGateway ==
  /\ heap = <<>>
  /\ sessions = <<>>
  /\ reqs = <<>>

\* No conversion applied yet.
NoProviderTools == [by |-> "none", tools |-> <<>>]

\* The tools accessor has not been called.  items holds, per entry of the
\* array, the index of the catalog entry it refers to (the same object),
\* or 0 for an object of the caller's own.
NoCopy == [taken |-> FALSE, items |-> <<>>]

\* No operation other than ask has been invoked.  count numbers the
\* invocations; requests counts the requests the operation sent to the MCP
\* server.
NoOp == [name |-> "", pc |-> "none", error |-> NULL, requests |-> 0, count |-> 0]

ConversionIdle ==
  /\ mcpTools = <<>>
  /\ providerTools = NoProviderTools
  /\ toolResult = NoPayload
  /\ resultContent = NULL
  /\ toolsCopy = NoCopy
  /\ op = NoOp

Init ==
  /\ variant \in Variants
  /\ client = NewClient
  /\ frame = NewFrame
  /\ providerCalls = 0
  /\ NoGateway
  /\ ConversionIdle

\* await client.connect()
Connect ==
  /\ frame.pc = "idle"
  /\ \E transportOk \in BOOLEAN, listOk \in BOOLEAN :
       client' = Connected(client, transportOk, listOk)
  /\ UNCHANGED <<variant, frame, providerCalls>>
  /\ UNCHANGED <<gwVars, cvVars>>

\* await client.disconnect()
Disconnect ==
  /\ frame.pc = "idle"
  /\ client' = Disconnected(client)
  /\ UNCHANGED <<variant, frame, providerCalls>>
  /\ UNCHANGED <<gwVars, cvVars>>

\* client.clearHistory()
ClearHistory ==
  /\ frame.pc = "idle"
  /\ client' = ClearedHistory(client)
  /\ UNCHANGED <<variant, frame, providerCalls>>
  /\ UNCHANGED <<gwVars, cvVars>>

\* client.ask(question) is called.
AskStart ==
  /\ frame.pc = "idle"
  /\ providerCalls < MaxProviderCalls
  /\ \E q \in Questions :
       LET s == AskBegin(variant, client, q)
       IN  /\ client' = s.c
           /\ frame' = s.f
           /\ providerCalls' = providerCalls + Pending(s.f, "provider")
  /\ UNCHANGED variant
  /\ UNCHANGED <<gwVars, cvVars>>

\* The provider endpoint answers the pending request.
ProviderReply ==
  /\ frame.pc = "awaitProvider"
  /\ \E r \in ProviderReplies(variant, Len(log),
                              OffersTools(frame) /\ providerCalls < MaxProviderCalls) :
       LET s == OnProviderReply(variant, client, frame, r)
       IN  /\ client' = s.c
           /\ frame' = s.f
           /\ providerCalls' = providerCalls + Pending(s.f, "provider")
  /\ UNCHANGED variant
  /\ UNCHANGED <<gwVars, cvVars>>

\* The tool server answers the pending call.
ToolReply ==
  /\ frame.pc = "awaitTool"
  /\ \E o \in ToolOutcomes(Requested(variant, frame.response)[frame.idx].name) :
       LET s == OnToolReply(variant, client, frame, o)
       IN  /\ client' = s.c
           /\ frame' = s.f
           /\ providerCalls' = providerCalls + Pending(s.f, "provider")
  /\ UNCHANGED variant
  /\ UNCHANGED <<gwVars, cvVars>>

\* The caller's await of ask is resumed with the value or the error.
AskSettled ==
  /\ frame.pc \in {"returned", "threw"}
  /\ frame' = NewFrame
  /\ UNCHANGED <<variant, client, providerCalls>>
  /\ UNCHANGED <<gwVars, cvVars>>

Next ==
  \/ AskSettled
  \/ Connect
  \/ Disconnect
  \/ ClearHistory
  \/ AskStart
  \/ ProviderReply
  \/ ToolReply

Spec == Init /\ [][Next]_vars

\* ----------------------------------------------------------- the gateway

\* The gateway runs the Anthropic-style client (createMCPAssistant(options)).
GatewayVariant == "anthropic"

\* A session object with its client; by is the request that created it and
\* owners records, per entry of the client's history, the request whose ask
\* appended it.  stale says that lastUsed is more than sessionTimeout ago;
\* sweep is "closing" while the cleanup task is suspended in the disconnect
\* of this session, "failed" when that disconnect threw, and "swept" once
\* the cleanup task has removed the session.
NewSession(c, r) ==
  [c |-> c, by |-> r, owners |-> <<>>, stale |-> FALSE, sweep |-> ""]

\* session.lastUsed = new Date()
Touched(o) == [o EXCEPT !.stale = FALSE]

\* The session object after a step of request r that made its client c.
Stepped(o, c, r) ==
  [o EXCEPT !.c = c,
            !.owners = IF Len(c.conversationHistory) >= Len(@)
                       THEN @ \o [i \in 1..(Len(c.conversationHistory) - Len(@)) |-> r]
                       ELSE <<>>]

\* What is left of an ask that has settled: its value or its error.
Settled(f) ==
  [NewFrame EXCEPT !.pc = f.pc, !.retval = f.retval, !.error = f.error]

\* Mutant of ToolsUsed: the names of the tools the ask has called.
ToolsUsedByAsk(c, f) ==
  LET called == {k \in 1..Len(f.calls) : f.calls[k].kind = "tool"}
  IN  IF called = {} THEN <<>>
      ELSE <<f.calls[CHOOSE k \in called : TRUE].name>>

\* toolsUsed: session.client.tools.map(t => t.name)
ToolsUsed(c, f) == [i \in 1..Len(c.availableTools) |-> c.availableTools[i].name]

\* The chatResponse object made after the ask of frame f returned, from
\* the client c as the ask left it.
ChatResponse(req, f, c) ==
  [req EXCEPT !.toolsUsed = ToolsUsed(c, f),
              !.conversationLength = Len(c.conversationHistory)]

\* Mutant of ChatAfterAsk: an ask that threw is answered like one that
\* returned.
ChatAfterAskSwallows(req, f, c) ==
  CASE f.pc \in {"returned", "threw"} ->
         Respond(ChatResponse([req EXCEPT !.f = Settled(f)], f, c),
                 200, f.retval, NULL)
    [] OTHER -> [req EXCEPT !.pc = "asking", !.f = f]

\* handleChat after a step of session.client.ask: it stays suspended, or
\* answers 200 with the response, or its catch answers 500.
ChatAfterAsk(req, f, c) ==
  CASE f.pc = "returned" ->
         Respond(ChatResponse([req EXCEPT !.f = Settled(f)], f, c),
                 200, f.retval, NULL)
    [] f.pc = "threw" ->
         Respond([req EXCEPT !.f = Settled(f)], 500,
                 <<"Failed to process message">>, f.error)
    [] OTHER -> [req EXCEPT !.pc = "asking", !.f = f]

\* A message field that holds something other than a string.
NotAString == <<"<not a string>">>

\* The message of a chat request: a question, a missing message, or a
\* value that is not a string.
ChatMessages == Questions \cup {<<>>, NotAString}

\* Mutant of IsMessage: only the truthiness of message is looked at.
IsMessageTruthy(message) == message # <<>>

\* The negation of (!message || typeof message !== 'string').
IsMessage(message) == message # <<>> /\ message # NotAString

\* The HTTP requests received, the requests sent to the provider, and the
\* ones still to come from handlers that are creating their session.
Work ==
  Cardinality({r \in ReqIds : reqs[r].pc # "new"}) + providerCalls
    + Cardinality({r \in ReqIds : reqs[r].pc = "creating"})

\* handleChat with an existing session object o: ask is called.
ChatAsk(r, req, o) ==
  LET s == AskBegin(GatewayVariant, heap[o].c, req.message)
  IN  /\ heap' = [heap EXCEPT ![o] = Stepped(Touched(@), s.c, r)]
      /\ reqs' = [reqs EXCEPT ![r] = ChatAfterAsk([req EXCEPT !.obj = o], s.f, s.c)]
      /\ providerCalls' = providerCalls + Pending(s.f, "provider")

\* Mutant of ChatReceive: a client is created for every chat request.
ChatReceiveAlwaysCreates(r) ==
  /\ reqs[r].pc = "new"
  /\ \A q \in ReqIds : q < r => reqs[q].pc # "new"
  /\ Work + 2 <= MaxWork
  /\ \E sid \in FreshIds, message \in Questions :
       reqs' = [reqs EXCEPT ![r] =
                  [@ EXCEPT !.kind = "chat", !.sid = sid, !.message = message,
                            !.found = sessions[sid], !.pc = "creating"]]
  /\ UNCHANGED <<cvVars, variant, client, frame, sessions, heap, providerCalls>>

\* POST /chat arrives: handleChat up to its first await.
ChatReceive(r) ==
  /\ reqs[r].pc = "new"
  /\ \A q \in ReqIds : q < r => reqs[q].pc # "new"
  /\ Work + 2 <= MaxWork
  /\ \E sid \in FreshIds, message \in ChatMessages :
       LET req == [reqs[r] EXCEPT !.kind = "chat", !.sid = sid, !.message = message,
                                  !.found = IF IsMessage(message)
                                            THEN sessions[sid] ELSE 0]
       IN
       IF ~IsMessage(message)
       THEN /\ reqs' = [reqs EXCEPT ![r] =
                          Respond(req, 400,
                                  <<"Message is required and must be a string">>, NULL)]
            /\ UNCHANGED <<heap, providerCalls>>
       ELSE IF sessions[sid] = 0
       THEN /\ reqs' = [reqs EXCEPT ![r] = [req EXCEPT !.pc = "creating"]]
            /\ UNCHANGED <<heap, providerCalls>>
       ELSE ChatAsk(r, req, sessions[sid])
  /\ UNCHANGED <<cvVars, variant, client, frame, sessions>>

\* Mutant of ChatCreated: the new session is stored under every session id.
ChatCreatedForAll(r) ==
  /\ reqs[r].pc = "creating"
  /\ LET o == Len(heap) + 1
         c == Connected(NewClient, TRUE, TRUE)
         s == AskBegin(GatewayVariant, c, reqs[r].message)
     IN  /\ heap' = Append(heap, Stepped(NewSession(c, r), s.c, r))
         /\ sessions' = [sid \in SessionIds |-> o]
         /\ reqs' = [reqs EXCEPT ![r] = ChatAfterAsk([@ EXCEPT !.obj = o], s.f, s.c)]
         /\ providerCalls' = providerCalls + Pending(s.f, "provider")
  /\ UNCHANGED <<cvVars, variant, client, frame>>

\* The message of the error connect throws when client.connect rejects.
ConnectError == <<"Failed to connect to MCP server: ", "Error: ", "Connection closed">>

\* createMCPAssistant settles: the session is stored and ask is called, or
\* the handler answers 500.
ChatCreated(r) ==
  /\ reqs[r].pc = "creating"
  /\ \E transportOk \in BOOLEAN, listOk \in BOOLEAN :
       IF ~transportOk
       THEN /\ reqs' = [reqs EXCEPT ![r] =
                          Respond(@, 500, <<"Failed to initialize MCP client">>,
                                  ConnectError)]
            /\ UNCHANGED <<heap, sessions, providerCalls>>
       ELSE LET o == Len(heap) + 1
                c == Connected(NewClient, TRUE, listOk)
                s == AskBegin(GatewayVariant, c, reqs[r].message)
            IN  /\ heap' = Append(heap, Stepped(NewSession(c, r), s.c, r))
                /\ sessions' = [sessions EXCEPT ![reqs[r].sid] = o]
                /\ reqs' = [reqs EXCEPT ![r] = ChatAfterAsk([@ EXCEPT !.obj = o], s.f, s.c)]
                /\ providerCalls' = providerCalls + Pending(s.f, "provider")
  /\ UNCHANGED <<cvVars, variant, client, frame>>

\* The provider answers the request of handler r's ask.
ChatProviderReply(r) ==
  /\ reqs[r].pc = "asking"
  /\ reqs[r].f.pc = "awaitProvider"
  /\ LET o == reqs[r].obj IN
     \E rep \in ProviderReplies(GatewayVariant, Len(heap[o].c.conversationHistory),
                                OffersTools(reqs[r].f) /\ Work < MaxWork) :
       LET s == OnProviderReply(GatewayVariant, heap[o].c, reqs[r].f, rep)
       IN  /\ heap' = [heap EXCEPT ![o] = Stepped(@, s.c, r)]
           /\ reqs' = [reqs EXCEPT ![r] = ChatAfterAsk(@, s.f, s.c)]
           /\ providerCalls' = providerCalls + Pending(s.f, "provider")
  /\ UNCHANGED <<cvVars, variant, client, frame, sessions>>

\* The tool server answers the call of handler r's ask.
ChatToolReply(r) ==
  /\ reqs[r].pc = "asking"
  /\ reqs[r].f.pc = "awaitTool"
  /\ LET o == reqs[r].obj
         f == reqs[r].f
     IN
     \E out \in ToolOutcomes(Requested(GatewayVariant, f.response)[f.idx].name) :
       LET s == OnToolReply(GatewayVariant, heap[o].c, f, out)
       IN  /\ heap' = [heap EXCEPT ![o] = Stepped(@, s.c, r)]
           /\ reqs' = [reqs EXCEPT ![r] = ChatAfterAsk(@, s.f, s.c)]
           /\ providerCalls' = providerCalls + Pending(s.f, "provider")
  /\ UNCHANGED <<cvVars, variant, client, frame, sessions>>

\* clearSession: POST /sessions/:sessionId/clear.
ClearSession(r) ==
  /\ reqs[r].pc = "new"
  /\ \A q \in ReqIds : q < r => reqs[q].pc # "new"
  /\ Work + 1 <= MaxWork
  /\ \E sid \in FreshIds :
       LET o   == sessions[sid]
           req == [reqs[r] EXCEPT !.kind = "clear", !.sid = sid, !.found = o,
                                  !.obj = o]
       IN  IF o = 0
           THEN /\ reqs' = [reqs EXCEPT ![r] =
                              Respond(req, 404, <<"Session not found">>, NULL)]
                /\ UNCHANGED heap
           ELSE /\ heap' = [heap EXCEPT ![o] =
                              Stepped(Touched(@), ClearedHistory(@.c), r)]
                /\ reqs' = [reqs EXCEPT ![r] =
                              Respond(req, 200, <<"Session history cleared">>, NULL)]
  /\ UNCHANGED <<cvVars, variant, client, frame, providerCalls, sessions>>

\* await session.client.disconnect(); this.sessions.delete(sessionId), as
\* deleteSession and the cleanup task do it, from the call of disconnect up
\* to its first await: a connected client starts client.close(), a client
\* that is not connected is removed from the map at once.
Teardown(r, req, sid) ==
  LET o == sessions[sid] IN
  IF heap[o].c.isConnected
  THEN /\ reqs' = [reqs EXCEPT ![r] = [req EXCEPT !.pc = "closing"]]
       /\ UNCHANGED sessions
  ELSE /\ reqs' = [reqs EXCEPT ![r] =
                     Respond(req, 200, <<"Session deleted successfully">>, NULL)]
       /\ sessions' = [sessions EXCEPT ![sid] = 0]

\* deleteSession: DELETE /sessions/:sessionId, up to its first await.
DeleteReceive(r) ==
  /\ reqs[r].pc = "new"
  /\ \A q \in ReqIds : q < r => reqs[q].pc # "new"
  /\ Work + 1 <= MaxWork
  /\ \E sid \in FreshIds :
       LET o   == sessions[sid]
           req == [reqs[r] EXCEPT !.kind = "delete", !.sid = sid, !.found = o,
                                  !.obj = o]
       IN  IF o = 0
           THEN /\ reqs' = [reqs EXCEPT ![r] =
                              Respond(req, 404, <<"Session not found">>, NULL)]
                /\ UNCHANGED sessions
           ELSE Teardown(r, req, sid)
  /\ UNCHANGED <<cvVars, variant, client, frame, providerCalls, heap>>

\* The cleanup task finds a session whose lastUsed is older than the
\* session timeout and starts to disconnect it.  Time is not modelled: any
\* session of the map may be the expired one.
SweepExpire(r) ==
  /\ reqs[r].pc = "new"
  /\ \A q \in ReqIds : q < r => reqs[q].pc # "new"
  /\ Work + 1 <= MaxWork
  /\ \E sid \in FreshIds :
       /\ sessions[sid] # 0
       /\ Teardown(r, [reqs[r] EXCEPT !.kind = "sweep", !.sid = sid,
                                      !.found = sessions[sid],
                                      !.obj = sessions[sid]], sid)
  /\ UNCHANGED <<cvVars, variant, client, frame, providerCalls, heap>>

\* Mutant of CloseSettled: the session id is deleted from the map also when
\* close rejected.
CloseSettledAlwaysDeletes(r) ==
  /\ reqs[r].pc = "closing"
  /\ \E closeOk \in BOOLEAN :
       IF closeOk
       THEN /\ heap' = [heap EXCEPT ![reqs[r].obj] =
                          Stepped(@, [@.c EXCEPT !.isConnected = FALSE], r)]
            /\ sessions' = [sessions EXCEPT ![reqs[r].sid] = 0]
            /\ reqs' = [reqs EXCEPT ![r] =
                          Respond(@, 200, <<"Session deleted successfully">>, NULL)]
       ELSE /\ reqs' = [reqs EXCEPT ![r] =
                          Respond(@, 500, <<"Failed to delete session">>, NULL)]
            /\ sessions' = [sessions EXCEPT ![reqs[r].sid] = 0]
            /\ UNCHANGED heap
  /\ UNCHANGED <<cvVars, variant, client, frame, providerCalls>>

\* client.close() settles: disconnect sets isConnected = false and the
\* session id is deleted from the map, or close rejected and the handler's
\* catch answers 500 (the cleanup task logs the error).
CloseSettled(r) ==
  /\ reqs[r].pc = "closing"
  /\ \E closeOk \in BOOLEAN :
       IF closeOk
       THEN /\ heap' = [heap EXCEPT ![reqs[r].obj] =
                          Stepped(@, [@.c EXCEPT !.isConnected = FALSE], r)]
            /\ sessions' = [sessions EXCEPT ![reqs[r].sid] = 0]
            /\ reqs' = [reqs EXCEPT ![r] =
                          Respond(@, 200, <<"Session deleted successfully">>, NULL)]
       ELSE /\ reqs' = [reqs EXCEPT ![r] =
                          Respond(@, 500, <<"Failed to delete session">>, NULL)]
            /\ UNCHANGED <<heap, sessions>>
  /\ UNCHANGED <<cvVars, variant, client, frame, providerCalls>>

\* Mutant of GetSessionHistory: an id that is not in the map is answered
\* with an empty history.
GetSessionHistoryOfAny(r) ==
  /\ reqs[r].pc = "new"
  /\ \A q \in ReqIds : q < r => reqs[q].pc # "new"
  /\ Work + 1 <= MaxWork
  /\ \E sid \in FreshIds :
       LET o   == sessions[sid]
           req == [reqs[r] EXCEPT !.kind = "history", !.sid = sid, !.found = o,
                                  !.obj = o]
           h   == IF o = 0 THEN <<>> ELSE heap[o].c.conversationHistory
       IN  reqs' = [reqs EXCEPT ![r] =
                      Respond([req EXCEPT !.history = h, !.length = Len(h)],
                              200, <<>>, NULL)]
  /\ UNCHANGED <<cvVars, variant, client, frame, providerCalls, heap, sessions>>

\* getSessionTools: GET /sessions/:sessionId/tools.
GetSessionTools(r) ==
  /\ reqs[r].pc = "new"
  /\ \A q \in ReqIds : q < r => reqs[q].pc # "new"
  /\ Work + 1 <= MaxWork
  /\ \E sid \in FreshIds :
       LET o   == sessions[sid]
           req == [reqs[r] EXCEPT !.kind = "tools", !.sid = sid, !.found = o,
                                  !.obj = o]
       IN  IF o = 0
           THEN reqs' = [reqs EXCEPT ![r] =
                           Respond(req, 404, <<"Session not found">>, NULL)]
           ELSE LET t == heap[o].c.availableTools IN
                reqs' = [reqs EXCEPT ![r] =
                           Respond([req EXCEPT !.tools = t, !.count = Len(t)],
                                   200, <<>>, NULL)]
  /\ UNCHANGED <<cvVars, variant, client, frame, providerCalls, heap, sessions>>

\* getSessionHistory: GET /sessions/:sessionId/history.
GetSessionHistory(r) ==
  /\ reqs[r].pc = "new"
  /\ \A q \in ReqIds : q < r => reqs[q].pc # "new"
  /\ Work + 1 <= MaxWork
  /\ \E sid \in FreshIds :
       LET o   == sessions[sid]
           req == [reqs[r] EXCEPT !.kind = "history", !.sid = sid, !.found = o,
                                  !.obj = o]
       IN  IF o = 0
           THEN reqs' = [reqs EXCEPT ![r] =
                           Respond(req, 404, <<"Session not found">>, NULL)]
           ELSE LET h == heap[o].c.conversationHistory IN
                reqs' = [reqs EXCEPT ![r] =
                           Respond([req EXCEPT !.history = h, !.length = Len(h)],
                                   200, <<>>, NULL)]
  /\ UNCHANGED <<cvVars, variant, client, frame, providerCalls, heap, sessions>>

GatewayInit ==
  /\ variant = GatewayVariant
  /\ client = NewClient
  /\ frame = NewFrame
  /\ providerCalls = 0
  /\ GatewayIdle
  /\ ConversionIdle

GatewayNext ==
  \E r \in ReqIds :
    \/ ChatReceive(r)
    \/ ChatCreated(r)
    \/ ChatProviderReply(r)
    \/ ChatToolReply(r)
    \/ ClearSession(r)
    \/ DeleteReceive(r)
    \/ SweepExpire(r)
    \/ CloseSettled(r)

GatewaySpec == GatewayInit /\ [][GatewayNext]_vars

\* ------------------------------------- the gateway with its read routes

\* The step stays within the work given to the gateway.
WithinQueryWork == Work' <= MaxQueryWork

QueryNext ==
  \E r \in ReqIds :
    \/ ChatReceive(r) /\ WithinQueryWork
    \/ ChatCreated(r) /\ WithinQueryWork
    \/ ChatProviderReply(r) /\ WithinQueryWork
    \/ ChatToolReply(r) /\ WithinQueryWork
    \/ ClearSession(r) /\ WithinQueryWork
    \/ DeleteReceive(r) /\ WithinQueryWork
    \/ CloseSettled(r) /\ WithinQueryWork
    \/ GetSessionTools(r) /\ WithinQueryWork
    \/ GetSessionHistory(r) /\ WithinQueryWork

QuerySpec == GatewayInit /\ [][QueryNext]_vars

\* ------------------------------------------- the cleanup task by its timer

\* The session id a session object was created for.
SidOf(o) == reqs[heap[o].by].sid

\* More than sessionTimeout has passed since the lastUsed of the session
\* under sid.
Expire(sid) ==
  /\ sessions[sid] # 0
  /\ ~heap[sessions[sid]].stale
  /\ heap' = [heap EXCEPT ![sessions[sid]].stale = TRUE]
  /\ UNCHANGED <<cvVars, variant, client, frame, providerCalls, sessions, reqs>>

\* The sessions a run of the cleanup task puts on sessionsToDelete.  A run
\* finds no session whose disconnect an earlier run still awaits: a close
\* settles within the five minutes between two runs.
Expired ==
  {sid \in SessionIds :
     /\ sessions[sid] # 0
     /\ heap[sessions[sid]].stale
     /\ heap[sessions[sid]].sweep # "closing"}

\* One run of the setInterval callback, up to the awaits of its forEach
\* callbacks: every expired session starts its disconnect; a client that
\* is not connected is removed from the map at once.
SweepTick ==
  /\ Expired # {}
  /\ heap' = [o \in 1..Len(heap) |->
                IF \E sid \in Expired : sessions[sid] = o
                THEN [heap[o] EXCEPT !.sweep = IF heap[o].c.isConnected
                                               THEN "closing" ELSE "swept"]
                ELSE heap[o]]
  /\ sessions' = [sid \in SessionIds |->
                    IF sid \in Expired /\ ~heap[sessions[sid]].c.isConnected
                    THEN 0 ELSE sessions[sid]]
  /\ UNCHANGED <<cvVars, variant, client, frame, providerCalls, reqs>>

\* Mutant of SweepClosed: the client is disconnected but the session id
\* stays in the map.
SweepClosedKeepsEntry(o) ==
  /\ o <= Len(heap)
  /\ heap[o].sweep = "closing"
  /\ heap' = [heap EXCEPT ![o] = [@ EXCEPT !.c.isConnected = FALSE, !.sweep = "swept"]]
  /\ UNCHANGED <<cvVars, variant, client, frame, providerCalls, reqs, sessions>>

\* client.close() of the cleanup task's disconnect resolves: isConnected
\* = false and this.sessions.delete(sessionId).
SweepClosed(o) ==
  /\ o <= Len(heap)
  /\ heap[o].sweep = "closing"
  /\ heap' = [heap EXCEPT ![o] = [@ EXCEPT !.c.isConnected = FALSE, !.sweep = "swept"]]
  /\ sessions' = [sessions EXCEPT ![SidOf(o)] = 0]
  /\ UNCHANGED <<cvVars, variant, client, frame, providerCalls, reqs>>

\* client.close() rejects: the cleanup task's catch logs the error, the
\* session stays as it was and the next run finds it again.
SweepCloseFailed(o) ==
  /\ o <= Len(heap)
  /\ heap[o].sweep = "closing"
  /\ heap' = [heap EXCEPT ![o].sweep = "failed"]
  /\ UNCHANGED <<cvVars, variant, client, frame, providerCalls, reqs, sessions>>

\* The step stays within the work given to the gateway.
WithinSweepWork == Work' <= MaxSweepWork

SweepNext ==
  \/ \E sid \in SessionIds : Expire(sid)
  \/ SweepTick
  \/ \E o \in ReqIds : SweepClosed(o)
  \/ \E o \in ReqIds : SweepCloseFailed(o)
  \/ \E r \in ReqIds :
       \/ ChatReceive(r) /\ WithinSweepWork
       \/ ChatCreated(r) /\ WithinSweepWork
       \/ ChatProviderReply(r) /\ WithinSweepWork
       \/ ChatToolReply(r) /\ WithinSweepWork
       \/ ClearSession(r) /\ WithinSweepWork
       \/ DeleteReceive(r) /\ WithinSweepWork
       \/ CloseSettled(r) /\ WithinSweepWork

\* setInterval runs the callback again and again; the close of a transport
\* (assumed reliable) does not reject forever.
SweepFairness ==
  /\ WF_vars(SweepTick)
  /\ \A o \in ReqIds : SF_vars(SweepClosed(o))

SweepSpec == GatewayInit /\ [][SweepNext]_vars /\ SweepFairness

\* ------------------------------------- the conversions as pure functions

\* The entries a tool listing may hold: with a description, without one, or
\* with an empty one; with or without an inputSchema.
ToolEntries ==
  { Tool(name, description, inputSchema) :
      name \in {KnownTool, TimeTool, "bare"},
      description \in {<<"Perform basic mathematical calculations">>, NULL, <<>>},
      inputSchema \in {"calculatorSchema", "absent"} }

\* The tool listings of up to MaxTools tools (names are unique).
Catalogs ==
  UNION { { t \in [1..n -> ToolEntries] :
              \A i, j \in 1..n : i # j => t[i].name # t[j].name } :
          n \in 0..MaxTools }

\* A content item that is not text.
ImageBlock == Blk("image", <<>>, 0, "", <<>>, FALSE)

\* The results a tool server may return: content is a list of items, a bare
\* string (or the empty string), another object, or is missing.
Payloads ==
  { Payload(kind, items, str, isError) :
      kind \in {"array"},
      items \in { <<>>,
                  <<TextBlock(<<"Result: 4">>)>>,
                  <<TextBlock(<<"line 1">>), TextBlock(<<"line 2">>)>>,
                  <<TextBlock(<<"see image">>), ImageBlock>> },
      str \in {<<>>},
      isError \in BOOLEAN }
    \cup
  { Payload(kind, <<>>, str, isError) :
      kind \in {"string", "object", "absent"},
      str \in {<<>>, <<"plain text">>},
      isError \in BOOLEAN }

ConversionInit ==
  /\ variant = "anthropic"
  /\ client = NewClient
  /\ frame = NewFrame
  /\ providerCalls = 0
  /\ GatewayIdle
  /\ mcpTools \in Catalogs
  /\ providerTools = NoProviderTools
  /\ toolResult \in Payloads
  /\ resultContent = NULL
  /\ toolsCopy = NoCopy
  /\ op = NoOp

\* One of the three schema conversions is applied to the listing.
ConvertAnthropic ==
  /\ providerTools' = [by |-> "convertMCPToolsToAnthropic",
                       tools |-> convertMCPToolsToAnthropic(mcpTools)]
  /\ UNCHANGED <<variant, client, frame, providerCalls, gwVars,
                 mcpTools, toolResult, resultContent, toolsCopy, op>>

ConvertOpenAI ==
  /\ providerTools' = [by |-> "convertMCPToolsToOpenAI",
                       tools |-> convertMCPToolsToOpenAI(mcpTools)]
  /\ UNCHANGED <<variant, client, frame, providerCalls, gwVars,
                 mcpTools, toolResult, resultContent, toolsCopy, op>>

TransformOpenAI ==
  /\ providerTools' = [by |-> "transformMCPToolsToOpenAI",
                       tools |-> transformMCPToolsToOpenAI(mcpTools)]
  /\ UNCHANGED <<variant, client, frame, providerCalls, gwVars,
                 mcpTools, toolResult, resultContent, toolsCopy, op>>

\* "Handle the MCP tool result format" is applied to the tool result.
Normalize ==
  /\ resultContent' = NormalizeResult(toolResult)
  /\ UNCHANGED <<variant, client, frame, providerCalls, gwVars,
                 mcpTools, providerTools, toolResult, toolsCopy, op>>

ConversionNext ==
  \/ ConvertAnthropic
  \/ ConvertOpenAI
  \/ TransformOpenAI
  \/ Normalize

ConversionSpec == ConversionInit /\ [][ConversionNext]_vars

\* ------------------------------------------------- the tools accessor

\* A client after connect; its caller has not used it yet.
AccessorInit ==
  /\ variant \in Variants
  /\ \E listOk \in BOOLEAN : client = Connected(NewClient, TRUE, listOk)
  /\ frame = NewFrame
  /\ providerCalls = 0
  /\ NoGateway
  /\ ConversionIdle

accVars == <<variant, client, frame, providerCalls, gwVars,
             mcpTools, providerTools, toolResult, resultContent, op>>

\* get tools(): return [...this.availableTools], a new array of the same
\* tool objects.
GetTools ==
  /\ ~toolsCopy.taken
  /\ toolsCopy' = [taken |-> TRUE,
                   items |-> [i \in 1..Len(client.availableTools) |-> i]]
  /\ UNCHANGED accVars

\* The caller pushes an object of its own to the array it got.
CopyPush ==
  /\ toolsCopy.taken
  /\ Len(toolsCopy.items) <= Len(client.availableTools)
  /\ toolsCopy' = [toolsCopy EXCEPT !.items = Append(@, 0)]
  /\ UNCHANGED accVars

\* The caller pops the last entry of the array it got.
CopyPop ==
  /\ toolsCopy.taken
  /\ toolsCopy.items # <<>>
  /\ toolsCopy' = [toolsCopy EXCEPT !.items = SubSeq(@, 1, Len(@) - 1)]
  /\ UNCHANGED accVars

\* The caller assigns to a field of an entry of the array it got:
\* tools[i].description = 'changed'.  An entry that came from the catalog
\* is the catalog's object.
CopySetDescription ==
  /\ toolsCopy.taken
  /\ \E i \in 1..Len(toolsCopy.items) :
       LET t == toolsCopy.items[i] IN
       /\ t # 0
       /\ client.availableTools[t].description # <<"changed">>
       /\ client' = [client EXCEPT !.availableTools[t].description = <<"changed">>]
  /\ UNCHANGED <<variant, frame, providerCalls, gwVars, cvVars>>

\* The step stays within the provider requests given to this caller.
WithinAccessorCalls == providerCalls' <= MaxAccessorCalls

AccessorNext ==
  \/ GetTools
  \/ CopyPush
  \/ CopyPop
  \/ CopySetDescription
  \/ Disconnect
  \/ ClearHistory
  \/ AskStart /\ WithinAccessorCalls
  \/ ProviderReply /\ WithinAccessorCalls
  \/ ToolReply /\ WithinAccessorCalls
  \/ AskSettled

AccessorSpec == AccessorInit /\ [][AccessorNext]_vars

\* --------------------------------------- every operation of the class

\* The operations that ask the MCP server for something, and the text
\* their catch puts before the error.
ClientOps ==
  {"callTool", "listResources", "readResource", "listPrompts", "getPrompt",
   "ping", "setLoggingLevel"}

OpPrefix(name) ==
  CASE name = "callTool"      -> "Tool call failed: "
    [] name = "listResources" -> "Failed to list resources: "
    [] name = "readResource"  -> "Failed to read resource: "
    [] name = "listPrompts"   -> "Failed to list prompts: "
    [] name = "getPrompt"     -> "Failed to get prompt: "
    [] name = "ping"          -> "Ping failed: "
    [] OTHER                  -> ""

\* The operation that is invoked next, not yet run.
Invoked(name) == [NoOp EXCEPT !.name = name, !.count = op.count + 1]

OpThrew(o, err) == [o EXCEPT !.pc = "threw", !.error = err]
OpReturned(o) == [o EXCEPT !.pc = "returned"]
OpAwaits(o) == [o EXCEPT !.pc = "awaiting", !.requests = @ + 1]

\* Mutant of GuardedOp: the operation does not look at isConnected.
GuardedOpUnchecked(c, o) ==
  IF o.name = "setLoggingLevel" THEN OpReturned(o)
  ELSE OpAwaits(o)

\* callTool, listResources, readResource, listPrompts, getPrompt, ping and
\* setLoggingLevel up to their first await: each throws when the client is
\* not connected; setLoggingLevel does nothing else, the others send their
\* request.
GuardedOp(c, o) ==
  IF ~c.isConnected THEN OpThrew(o, <<"Client is not connected">>)
  ELSE IF o.name = "setLoggingLevel" THEN OpReturned(o)
  ELSE OpAwaits(o)

\* Mutant of ConnectBegin: connect does not look at isConnected.
ConnectBeginUnchecked(c, o) == OpAwaits(o)

\* connect() up to its first await.
ConnectBegin(c, o) ==
  IF c.isConnected THEN OpThrew(o, <<"Client is already connected">>)
  ELSE OpAwaits(o)

\* disconnect() up to its first await.
DisconnectBegin(c, o) ==
  IF c.isConnected THEN OpAwaits(o) ELSE OpReturned(o)

\* The caller runs one operation at a time.
CallerFree == frame.pc = "idle" /\ op.pc # "awaiting"

\* The caller invokes one of the guarded operations.
OpCall ==
  /\ CallerFree
  /\ op.count < MaxOps
  /\ \E name \in ClientOps : op' = GuardedOp(client, Invoked(name))
  /\ UNCHANGED <<variant, client, frame, providerCalls, gwVars,
                 mcpTools, providerTools, toolResult, resultContent, toolsCopy>>

\* The MCP server answers the request of a guarded operation, or the
\* request fails.
OpSettled ==
  /\ op.pc = "awaiting"
  /\ op.name \in ClientOps
  /\ \E ok \in BOOLEAN :
       op' = IF ok THEN OpReturned(op)
             ELSE OpThrew(op, <<OpPrefix(op.name), "Error: ", "Connection closed">>)
  /\ UNCHANGED <<variant, client, frame, providerCalls, gwVars,
                 mcpTools, providerTools, toolResult, resultContent, toolsCopy>>

\* The caller invokes connect().
OpConnect ==
  /\ CallerFree
  /\ op.count < MaxOps
  /\ op' = ConnectBegin(client, Invoked("connect"))
  /\ UNCHANGED <<variant, client, frame, providerCalls, gwVars,
                 mcpTools, providerTools, toolResult, resultContent, toolsCopy>>

\* client.connect(transport) and loadTools() settle.
OpConnectSettled ==
  /\ op.pc = "awaiting"
  /\ op.name = "connect"
  /\ \E transportOk \in BOOLEAN, listOk \in BOOLEAN :
       /\ client' = Connected(client, transportOk, listOk)
       /\ op' = IF transportOk THEN OpReturned(op) ELSE OpThrew(op, ConnectError)
  /\ UNCHANGED <<variant, frame, providerCalls, gwVars,
                 mcpTools, providerTools, toolResult, resultContent, toolsCopy>>

\* The caller invokes disconnect().
OpDisconnect ==
  /\ CallerFree
  /\ op.count < MaxOps
  /\ op' = DisconnectBegin(client, Invoked("disconnect"))
  /\ UNCHANGED <<variant, client, frame, providerCalls, gwVars,
                 mcpTools, providerTools, toolResult, resultContent, toolsCopy>>

\* client.close() settles: isConnected = false, or close rejected and
\* disconnect throws its error.
OpDisconnectSettled ==
  /\ op.pc = "awaiting"
  /\ op.name = "disconnect"
  /\ \E closeOk \in BOOLEAN :
       IF closeOk
       THEN /\ client' = Disconnected(client)
            /\ op' = OpReturned(op)
       ELSE /\ op' = OpThrew(op, <<"Connection closed">>)
            /\ UNCHANGED client
  /\ UNCHANGED <<variant, frame, providerCalls, gwVars,
                 mcpTools, providerTools, toolResult, resultContent, toolsCopy>>

\* A new client; its caller has not used it yet.
OperationsInit ==
  /\ variant \in Variants
  /\ client = NewClient
  /\ frame = NewFrame
  /\ providerCalls = 0
  /\ NoGateway
  /\ ConversionIdle

\* The step stays within the provider requests given to this caller.
WithinOps == providerCalls' <= MaxOpsCalls

OperationsNext ==
  \/ OpCall
  \/ OpSettled
  \/ OpConnect
  \/ OpConnectSettled
  \/ OpDisconnect
  \/ OpDisconnectSettled
  \/ ClearHistory /\ CallerFree
  \/ AskStart /\ CallerFree /\ WithinOps
  \/ ProviderReply /\ WithinOps
  \/ ToolReply /\ WithinOps
  \/ AskSettled

OperationsSpec == OperationsInit /\ [][OperationsNext]_vars

\* ------------------------------------------ the log as a sequence of turns

\* The Turn variant a history entry stands for.  An Anthropic user message
\* with a block list holds the ToolResults of one round.
Kind(m) ==
  CASE m.role = "tool" -> "ToolResult"
    [] m.role = "user" -> IF m.form = "array" THEN "ToolResult" ELSE "UserText"
    [] OTHER ->
         IF m.form = "array"
         THEN IF \E i \in 1..Len(m.blocks) : m.blocks[i].type = "tool_use"
              THEN "AssistantToolRequest" ELSE "AssistantText"
         ELSE IF m.has_tool_calls THEN "AssistantToolRequest" ELSE "AssistantText"

RECURSIVE ToolUseIds(_)
ToolUseIds(blocks) ==
  IF blocks = <<>> THEN <<>>
  ELSE (IF Head(blocks).type = "tool_use" THEN <<Head(blocks).id>> ELSE <<>>)
         \o ToolUseIds(Tail(blocks))

\* The call ids of an AssistantToolRequest turn, in request order.
RequestIds(m) ==
  IF m.form = "array" THEN ToolUseIds(m.blocks)
  ELSE [i \in 1..Len(m.tool_calls) |-> m.tool_calls[i].id]

\* The ToolResults a history entry holds: call id, text, error mark.  An
\* OpenAI tool message has no error field.
BlockResults(blocks) ==
  [i \in 1..Len(blocks) |->
     [id |-> blocks[i].tool_use_id, text |-> blocks[i].content,
      is_error |-> blocks[i].is_error]]

Results(m) ==
  IF m.form = "array" THEN BlockResults(m.blocks)
  ELSE <<[id |-> m.tool_call_id, text |-> m.content, is_error |-> FALSE]>>

RECURSIVE ResultsFrom(_, _)
\* The ToolResults of the run of ToolResult turns that starts at index i.
ResultsFrom(h, i) ==
  IF i > Len(h) \/ Kind(h[i]) # "ToolResult" THEN <<>>
  ELSE Results(h[i]) \o ResultsFrom(h, i + 1)

Ids(rs) == [i \in 1..Len(rs) |-> rs[i].id]

IsPrefix(a, b) == Len(a) <= Len(b) /\ a = SubSeq(b, 1, Len(a))

\* The index after the run of ToolResult turns that starts at index i.
RECURSIVE RunEnd(_, _)
RunEnd(h, i) ==
  IF i > Len(h) \/ Kind(h[i]) # "ToolResult" THEN i ELSE RunEnd(h, i + 1)

\* The text of an assistant turn: its text blocks in order, or its content.
TurnText(m) ==
  IF m.form = "array" THEN ConcatText(m.blocks)
  ELSE IF m.content = NULL THEN <<>> ELSE m.content

\* The text of a Final decision: the reply's text blocks in order, or the
\* message content, the empty string if there is none.
DecisionText(v, r) ==
  IF v = "anthropic" THEN ConcatText(r.content)
  ELSE IF r.text = NULL THEN <<>> ELSE r.text

\* The turns the current ask has appended.
Appended == SubSeq(log, Len(frame.base) + 1, Len(log))

\* The ToolResults recorded so far for the round in progress.
RoundResults ==
  IF variant = "anthropic" /\ frame.pc = "awaitTool"
  THEN BlockResults(frame.toolResults)
  ELSE LET starts == {j \in 1..Len(log) : Kind(log[j]) = "AssistantToolRequest"}
       IN  IF starts = {} THEN <<>>
           ELSE ResultsFrom(log, (CHOOSE j \in starts : \A k \in starts : k <= j) + 1)

ToolCallsMade == {k \in 1..Len(frame.calls) : frame.calls[k].kind = "tool"}

\* The ToolResults the current ask has recorded, in the log or, while an
\* Anthropic round is being dispatched, in its toolResults list.
RECURSIVE ResultsIn(_)
ResultsIn(h) ==
  IF h = <<>> THEN <<>>
  ELSE (IF Kind(Head(h)) = "ToolResult" THEN Results(Head(h)) ELSE <<>>)
         \o ResultsIn(Tail(h))

Recorded ==
  ResultsIn(Appended)
    \o (IF variant = "anthropic" /\ frame.pc = "awaitTool"
        THEN BlockResults(frame.toolResults) ELSE <<>>)

\* The call ids of the last AssistantToolRequest turn of the log.
LastRequestIds ==
  LET starts == {j \in 1..Len(log) : Kind(log[j]) = "AssistantToolRequest"}
  IN  IF starts = {} THEN <<>>
      ELSE RequestIds(log[CHOOSE j \in starts : \A k \in starts : k <= j])

\* A provider round that follows a dispatch finds one result per request.
RoundComplete ==
  (frame.pc = "awaitProvider" /\ frame.rounds > 0)
    => Ids(RoundResults) = LastRequestIds

BeginsWithError(text) == text # <<>> /\ Head(text) = "Error: "

\* ------------------------------------------------------------ properties

\* C1: ask enforces a maximum number of tool rounds of its own, so an ask
\* ends even when the provider requests tools in every reply: the rounds of
\* one ask stay below the number of tool-requesting replies the provider is
\* prepared to give (here MaxProviderCalls - 1).
C1_LoopBoundEnforced ==
  frame.rounds < MaxProviderCalls - 1

\* C2: every ToolResult turn's call ids are call ids of the immediately
\* preceding AssistantToolRequest turn (only ToolResult turns lie between).
C2_ReferentialIntegrity ==
  LET kinds == [i \in 1..Len(log) |-> Kind(log[i])] IN
  \A i \in 1..Len(log) :
    kinds[i] = "ToolResult" =>
      \E j \in 1..(i - 1) :
        /\ kinds[j] = "AssistantToolRequest"
        /\ \A k \in (j + 1)..(i - 1) : kinds[k] = "ToolResult"
        /\ LET ids == RequestIds(log[j])
               rs  == Results(log[i])
           IN  \A n \in 1..Len(rs) : \E m \in 1..Len(ids) : ids[m] = rs[n].id

C2_Witness ==
  /\ frame.pc = "returned"
  /\ frame.rounds = 2
  /\ frame.base # <<>>
  /\ \E i \in 1..Len(log) : Kind(log[i]) = "ToolResult"

\* C3: the ToolResults that follow an AssistantToolRequest turn are in the
\* order of its requests, and are one per request once the round is over.
C3_RequestOrder ==
  \A j \in 1..Len(log) :
    Kind(log[j]) = "AssistantToolRequest" =>
      LET got == Ids(ResultsFrom(log, j + 1))
          ids == RequestIds(log[j])
      IN  /\ IsPrefix(got, ids)
          /\ RunEnd(log, j + 1) <= Len(log) => got = ids

C3_Witness ==
  \E j \in 1..Len(log) :
    /\ Kind(log[j]) = "AssistantToolRequest"
    /\ Len(RequestIds(log[j])) = 3
    /\ Ids(ResultsFrom(log, j + 1)) = RequestIds(log[j])

C5_ProviderErrorEndsAsk ==
  \A k \in 1..Len(frame.calls) :
    (frame.calls[k].kind = "provider" /\ frame.calls[k].status = "failed") =>
      /\ k = Len(frame.calls)
      /\ frame.pc = "threw"
      /\ frame.error = <<"API error: ">>

C5_Witness ==
  /\ frame.pc = "threw"
  /\ Len(frame.calls) >= 3
  /\ frame.calls[Len(frame.calls)].status = "failed"

\* C6: when the first provider call of an ask fails, the log is the log
\* before the ask plus the UserText turn of the question.
C6_FirstCallFailure ==
  (frame.pc = "threw" /\ Len(frame.calls) = 1) =>
    log = Append(frame.base,
                 Msg("user", "string", frame.question, <<>>, FALSE, <<>>, 0))

C6_Witness ==
  /\ frame.pc = "threw"
  /\ Len(frame.calls) = 1
  /\ frame.base # <<>>

\* C7: only the last external call of an ask can be unanswered; tool calls
\* are issued in request order (call ids grow with the position in the
\* request list and from reply to reply); a provider round after a
\* dispatch finds every requested call recorded.
C7_OneOutstanding ==
  /\ \A k \in 1..Len(frame.calls) :
       frame.calls[k].status = "pending" => k = Len(frame.calls)
  /\ \A k1, k2 \in ToolCallsMade :
       k1 < k2 => frame.calls[k1].id < frame.calls[k2].id
  /\ RoundComplete

C7_Witness ==
  /\ frame.pc = "awaitTool"
  /\ Cardinality(ToolCallsMade) = 2
  /\ frame.calls[Len(frame.calls)].status = "pending"

\* The shape C9 gives the turns of a completed ask: UserText, then per
\* round an AssistantToolRequest and one ToolResult per request, then
\* AssistantText.
RoundsShape(h) ==
  /\ \A i \in 1..Len(h) : Kind(h[i]) \in {"AssistantToolRequest", "ToolResult"}
  /\ h # <<>> => Kind(h[1]) = "AssistantToolRequest"
  /\ \A j \in 1..Len(h) :
       Kind(h[j]) = "AssistantToolRequest" =>
         Ids(ResultsFrom(h, j + 1)) = RequestIds(h[j])

\* C9: an ask that returns after k rounds has appended UserText, k rounds
\* of AssistantToolRequest and ToolResults, and AssistantText, and returns
\* the final text; with one round of one request these are 4 turns.
C9_CompletedAskShape ==
  frame.pc = "returned" =>
    LET h == Appended IN
    /\ Len(h) >= 2
    /\ Kind(h[1]) = "UserText" /\ h[1].content = frame.question
    /\ Kind(h[Len(h)]) = "AssistantText"
    /\ RoundsShape(SubSeq(h, 2, Len(h) - 1))
    /\ Cardinality({j \in 1..Len(h) : Kind(h[j]) = "AssistantToolRequest"})
         = frame.rounds
    /\ frame.retval = TurnText(h[Len(h)])
    /\ (frame.rounds = 1 /\ Len(RequestIds(h[2])) = 1) => Len(h) = 4

\* C10: the text of the AssistantText turn and the value ask returns are
\* the text of the Final decision.
C10_FinalTextRoundTrip ==
  frame.pc = "returned" =>
    /\ TurnText(log[Len(log)]) = DecisionText(variant, frame.response)
    /\ frame.retval = DecisionText(variant, frame.response)

\* The reply has no text and requests no tool.
EmptyReply(v, r) ==
  IF v = "anthropic"
  THEN \A i \in 1..Len(r.content) : r.content[i].type \notin {"text", "tool_use"}
  ELSE ~Truthy(r.text) /\ (~r.has_tool_calls \/ r.tool_calls = <<>>)

LastCall(f) == f.calls[Len(f.calls)]

UserMsg(q) == Msg("user", "string", q, <<>>, FALSE, <<>>, 0)

ProviderCallsMade == {k \in 1..Len(frame.calls) : frame.calls[k].kind = "provider"}

\* C11: a provider reply with no text and no tool request makes ask return
\* the empty string as its normal result.
C11_EmptyFinalReturned ==
  (/\ frame.calls # <<>>
   /\ LastCall(frame).kind = "provider"
   /\ LastCall(frame).status = "ok"
   /\ EmptyReply(variant, frame.response))
    => (frame.pc = "returned" /\ frame.retval = <<>>)

\* C12: clearHistory leaves the empty log, whatever the log held, and
\* clearing again changes nothing; the first provider request of an ask
\* that starts on the cleared log carries one message, the new UserText.
C12_ClearThenFresh ==
  /\ [][ClearHistory => (log' = <<>> /\ ClearedHistory(client') = client')]_vars
  /\ []((frame.calls # <<>> /\ frame.base = <<>>)
          => frame.calls[1].body.messages = <<UserMsg(frame.question)>>)

C12_Witness ==
  /\ frame.pc = "awaitProvider"
  /\ Len(frame.calls) = 1
  /\ frame.base = <<>>
  /\ providerCalls >= 2

\* C13: in the OpenAI-style loops a call whose arguments do not parse is
\* never sent to the tool server; a result with its call id and a text
\* beginning "Error:" is recorded at its place, the remaining calls are
\* handled and the next provider round is issued.
C13_BadArgumentsRecorded ==
  variant # "anthropic" =>
    /\ LET h == Appended IN
       \A j \in 1..Len(h) :
         Kind(h[j]) = "AssistantToolRequest" =>
           LET calls == h[j].tool_calls
               rs    == ResultsFrom(h, j + 1)
               over  == frame.pc # "awaitTool" \/ RunEnd(h, j + 1) <= Len(h)
           IN  /\ over => Len(rs) = Len(calls)
               /\ \A n \in 1..Len(calls) :
                    calls[n].args = "bad" =>
                      /\ \A k \in ToolCallsMade : frame.calls[k].id # calls[n].id
                      /\ (over \/ frame.idx > n) =>
                           /\ Len(rs) >= n
                           /\ rs[n].id = calls[n].id
                           /\ BeginsWithError(rs[n].text)
    /\ RoundComplete

C13_Witness ==
  /\ variant # "anthropic"
  /\ frame.pc = "awaitProvider"
  /\ \E j \in 1..Len(Appended) :
       /\ Kind(Appended[j]) = "AssistantToolRequest"
       /\ \E n \in 1..Len(Appended[j].tool_calls) :
            /\ Appended[j].tool_calls[n].args = "bad"
            /\ \E k \in ToolCallsMade :
                 frame.calls[k].id = Appended[j].tool_calls[n + 1].id

\* C16: a connect whose tool listing fails leaves the client connected with
\* an empty catalog (not the catalog of an earlier connection), and the
\* provider requests of an ask on an empty catalog carry no tools.
C16_ListingFailureDegrades ==
  /\ [][(/\ frame.pc = "idle"
         /\ ~client.isConnected
         /\ client' = Connected(client, TRUE, FALSE))
          => (client'.isConnected /\ client'.availableTools = <<>>)]_vars
  /\ []((frame.calls # <<>> /\ client.availableTools = <<>>)
          => \A k \in ProviderCallsMade : ~frame.calls[k].body.has_tools)

C16_Witness ==
  /\ client.isConnected
  /\ client.availableTools = <<>>
  /\ frame.pc = "returned"
  /\ ~frame.calls[1].body.has_tools

\* C17: a provider request has a tools field exactly when the schema list
\* is not empty, and then the field is the schema list, one entry per tool
\* of the catalog.
C17_ToolsFieldIffSchemas ==
  \A k \in ProviderCallsMade :
    LET body == frame.calls[k].body IN
    /\ body.has_tools <=> Len(frame.tools) > 0
    /\ body.has_tools => body.tools = frame.tools
    /\ Len(frame.tools) = Len(client.availableTools)

C17_Witness ==
  /\ frame.pc = "awaitProvider"
  /\ frame.base # <<>>
  /\ client.availableTools = <<>>
  /\ \A k \in ProviderCallsMade : ~frame.calls[k].body.has_tools

\* The default parameter schema of a conversion.
EmptySchemaOf(by) ==
  IF by = "convertMCPToolsToAnthropic" THEN AnthropicEmptySchema ELSE OpenAIEmptySchema

\* C14: a schema conversion yields one entry per tool of the listing, in
\* listing order, with the name unchanged, the description of the tool or
\* "Execute " + name when the tool has none (or an empty one), and the
\* schema of the tool or an empty object schema when the tool has none;
\* no entry lacks its description or its parameters.
C14_SchemaPerTool ==
  providerTools.by # "none" =>
    LET out == providerTools.tools IN
    /\ Len(out) = Len(mcpTools)
    /\ \A i \in 1..Len(out) :
         /\ out[i].name = mcpTools[i].name
         /\ out[i].description =
              (IF Truthy(mcpTools[i].description) THEN mcpTools[i].description
               ELSE <<"Execute ", mcpTools[i].name>>)
         /\ out[i].parameters =
              (IF mcpTools[i].inputSchema # "absent" THEN mcpTools[i].inputSchema
               ELSE EmptySchemaOf(providerTools.by))
         /\ out[i].description # NULL
         /\ out[i].parameters # "absent"

\* The text the normalization rule of C15 gives a tool result.
RuleText(p) ==
  CASE p.kind = "array"  -> JoinItems(p.items)
    [] p.kind = "string" -> p.str
    [] OTHER             -> StringifyResult(p)

\* C15: the text made of a tool result is the newline-join of its content
\* items (text items by their text, others serialized) when the content is
\* a list, the content itself when it is a string, and the serialized
\* result otherwise.
C15_NormalizationRule ==
  resultContent # NULL => resultContent = RuleText(toolResult)

\* The request that takes the step (every step of the gateway is a step of
\* one request).
Acts(r) == reqs'[r] # reqs[r]

\* C18: no two session ids of the map refer to the same session object
\* (client and transport); a step of a request changes the log, catalog
\* and connection state of no session but the one the request is on, and
\* the map entry of no session id but the one the request names.
C18_SessionsIsolated ==
  /\ [](\A a, b \in SessionIds :
          (a # b /\ sessions[a] # 0) => sessions[a] # sessions[b])
  /\ [][\A r \in ReqIds :
          Acts(r) =>
            /\ \A o \in 1..Len(heap) : o # reqs'[r].obj => heap'[o] = heap[o]
            /\ \A sid \in SessionIds :
                 sid # reqs'[r].sid => sessions'[sid] = sessions[sid]]_vars

C18_Witness ==
  /\ sessions["s1"] # 0
  /\ sessions["s2"] # 0
  /\ sessions["s1"] # sessions["s2"]
  /\ Len(heap[sessions["s1"]].c.conversationHistory) >= 2
  /\ Len(heap[sessions["s2"]].c.conversationHistory) = 1

\* C19: when an ask resumes from a tool call on a client that has been
\* disconnected in the meantime, every later tool call of the round is
\* recorded as an error ToolResult (is_error, text beginning "Error:")
\* without a call to the tool server, and the ask goes on to the next
\* provider round: it does not throw.
C19_TeardownYieldsErrorResults ==
  [][\A r \in ReqIds :
       (/\ reqs[r].pc = "asking"
        /\ reqs[r].f.pc = "awaitTool"
        /\ ~heap[reqs[r].obj].c.isConnected
        /\ Acts(r))
         => LET f  == reqs[r].f
                h2 == heap'[reqs[r].obj].c.conversationHistory
                rs == Results(h2[Len(h2)])
            IN  /\ reqs'[r].pc = "asking"
                /\ reqs'[r].f.pc = "awaitProvider"
                /\ Kind(h2[Len(h2)]) = "ToolResult"
                /\ Ids(rs) = ToolUseIds(f.response.content)
                /\ \A n \in (Len(f.toolResults) + 2)..Len(rs) :
                     rs[n].is_error /\ BeginsWithError(rs[n].text)]_vars

C19_Witness ==
  \E r \in ReqIds :
    /\ reqs[r].pc = "asking"
    /\ reqs[r].f.pc = "awaitProvider"
    /\ ~heap[reqs[r].obj].c.isConnected
    /\ LET h == heap[reqs[r].obj].c.conversationHistory IN
       /\ h # <<>>
       /\ Kind(h[Len(h)]) = "ToolResult"
       /\ \E n \in 2..Len(Results(h[Len(h)])) :
            Results(h[Len(h)])[n].text = ErrorText(<<"Client is not connected">>)

\* The session objects a request has created.
CreatedBy(r) == {o \in 1..Len(heap) : heap[o].by = r}

\* C20: a chat request that finds no session under its id creates exactly
\* one session, stores it under the id and has its message processed by
\* that session's client; a chat request that finds a session under its id
\* creates none and has its message processed by the client it found.
C20_LazySessionPerId ==
  /\ [](\A r \in ReqIds :
          (reqs[r].kind = "chat" /\ reqs[r].obj # 0) =>
            IF reqs[r].found = 0
            THEN CreatedBy(r) = {reqs[r].obj}
            ELSE reqs[r].obj = reqs[r].found /\ CreatedBy(r) = {})
  /\ [][\A r \in ReqIds :
          (reqs[r].pc = "creating" /\ reqs'[r].obj # 0) =>
            /\ sessions'[reqs[r].sid] = reqs'[r].obj
            /\ Len(heap') = Len(heap) + 1]_vars

C20_Witness ==
  \E r \in ReqIds :
    /\ reqs[r].kind = "chat"
    /\ reqs[r].pc = "asking"
    /\ reqs[r].found # 0
    /\ reqs[r].obj = reqs[r].found
    /\ heap[reqs[r].obj].by # r
    /\ Len(heap[reqs[r].obj].c.conversationHistory) >= 3

\* The session under sid is idle for more than the session timeout.
Idle(sid) == sessions[sid] # 0 /\ heap[sessions[sid]].stale

CreationFailed(r) ==
  /\ reqs[r].kind = "chat"
  /\ reqs[r].pc = "done"
  /\ IsMessage(reqs[r].message)
  /\ reqs[r].found = 0
  /\ reqs[r].obj = 0

AskThrew(r) == reqs[r].kind = "chat" /\ reqs[r].f.pc = "threw"

C23_NoConsecutiveUserText ==
  \A i \in 1..(Len(log) - 1) :
    ~(Kind(log[i]) = "UserText" /\ Kind(log[i + 1]) = "UserText")

\* C24: every step but clearHistory leaves the log as a prefix of the new
\* log (so its length does not decrease), and so does every step of ask.
C24_AppendOnly ==
  [][/\ ClearHistory \/ IsPrefix(log, log')
     /\ frame' # frame => IsPrefix(log, log')]_vars

C24_Witness ==
  /\ frame.pc = "awaitProvider"
  /\ frame.rounds >= 1
  /\ frame.base # <<>>
  /\ Len(log) >= Len(frame.base) + 3

\* C25: once the client is connected, nothing but the listing of a connect
\* changes its catalog: not ask, callTool, clearHistory or disconnect, and
\* not what a caller does to the array the tools accessor returned.  (No
\* step of AccessorSpec is a connect.)
C25_CatalogUnchanged ==
  [][client'.availableTools = client.availableTools]_vars

\* C26: a tool call that names a tool the server does not offer resolves
\* to a result (one that is marked as an error); client.callTool does not
\* reject with a protocol error.
C26_UnknownToolPayloadError ==
  \A k \in ToolCallsMade :
    (frame.calls[k].name = UnknownTool /\ frame.calls[k].status # "pending")
      => frame.calls[k].status = "ok"

\* Every ToolResult turn of h follows an AssistantToolRequest turn, with
\* only ToolResult turns between them.
Paired(h) ==
  \A i \in 1..Len(h) :
    Kind(h[i]) = "ToolResult" =>
      \E j \in 1..(i - 1) :
        /\ Kind(h[j]) = "AssistantToolRequest"
        /\ \A k \in (j + 1)..(i - 1) : Kind(h[k]) = "ToolResult"

\* The chat requests whose ask ran on session object o.
ChatsOn(o) == {r \in ReqIds : reqs[r].kind = "chat" /\ reqs[r].obj = o}

\* C27: when the one ask of a session has finished, whatever clear
\* requests of the session ran before, after or during it, the log holds
\* no ToolResult turn without its AssistantToolRequest turn right before it.
C27_ClearDuringAskKeepsPairs ==
  \A o \in 1..Len(heap) :
    (Cardinality(ChatsOn(o)) = 1 /\ \A r \in ChatsOn(o) : reqs[r].pc = "done")
      => Paired(heap[o].c.conversationHistory)

\* C28: the message list of every provider request of an ask is the whole
\* log at the moment the request is issued, in log order: the log before
\* the ask, then the turns the ask has appended so far.
C28_WholeLogSent ==
  /\ [][(/\ Len(frame'.calls) > Len(frame.calls)
         /\ LastCall(frame').kind = "provider")
          => LastCall(frame').body.messages = log']_vars
  /\ [](\A k \in ProviderCallsMade :
          LET m == frame.calls[k].body.messages IN
          /\ IsPrefix(frame.base, m)
          /\ Len(m) > Len(frame.base)
          /\ IsPrefix(m, log)
          /\ frame.calls[k].status = "pending" => m = log)

C28_Witness ==
  /\ frame.pc = "awaitProvider"
  /\ frame.rounds = 2
  /\ frame.base # <<>>
  /\ LastCall(frame).body.messages = log
  /\ Len(log) >= Len(frame.base) + 5

\* C29: as long as no session is deleted or expired, at most one client is
\* created per session id, however the chat requests that name the id
\* overlap, and every connected client is the one the map holds for its id.
C29_OneClientPerId ==
  (\A r \in ReqIds : reqs[r].kind \in {"", "chat", "clear"}) =>
    /\ \A o1, o2 \in 1..Len(heap) : SidOf(o1) = SidOf(o2) => o1 = o2
    /\ \A o \in 1..Len(heap) :
         heap[o].c.isConnected => sessions[SidOf(o)] = o

\* The assistant turns among the turns of h.
AssistantTurns(h) == {i \in 1..Len(h) : h[i].role = "assistant"}

\* C30: an ask has appended one assistant turn per provider reply it has
\* received, and in the Anthropic-style log no assistant turn is followed
\* at once by another assistant turn.
C30_ReplyAppendedOnce ==
  /\ frame.pc # "idle" =>
       Cardinality(AssistantTurns(Appended))
         = Cardinality({k \in ProviderCallsMade : frame.calls[k].status = "ok"})
  /\ variant = "anthropic" =>
       \A i \in 1..(Len(log) - 1) :
         ~(log[i].role = "assistant" /\ log[i + 1].role = "assistant")


\* The requests whose ask is suspended on the client of session object o.
AsksInFlight(o) == {r \in ReqIds : reqs[r].pc = "asking" /\ reqs[r].obj = o}

\* The cleanup task removes session object o in this step.
SweptNow(o) == heap[o].sweep # "swept" /\ heap'[o].sweep = "swept"

\* C31: the cleanup task removes a session only if, at the moment of the
\* removal, its lastUsed is still older than the session timeout (no request
\* has refreshed it since the expiry check) and none of its asks is in
\* flight.
C31_SweepRemovesOnlyIdle ==
  [][\A o \in 1..Len(heap) :
       SweptNow(o) => heap[o].stale /\ AsksInFlight(o) = {}]_vars


\* Request r is a DELETE that found its session and is answered in this step.
DeleteAnswered(r) ==
  /\ reqs'[r].kind = "delete"
  /\ reqs'[r].found # 0
  /\ reqs[r].pc # "done"
  /\ reqs'[r].pc = "done"

\* C32: a DELETE on an existing session is answered 200 with the client
\* disconnected and the id out of the session map when disconnect succeeded,
\* and 500 with the session map and every session as they were when
\* disconnect failed.
C32_DeleteOutcome ==
  [][\A r \in ReqIds :
       DeleteAnswered(r) =>
         \/ /\ reqs'[r].status = 200
            /\ reqs'[r].body = <<"Session deleted successfully">>
            /\ ~heap'[reqs'[r].obj].c.isConnected
            /\ sessions'[reqs'[r].sid] = 0
         \/ /\ reqs'[r].status = 500
            /\ reqs'[r].body = <<"Failed to delete session">>
            /\ heap' = heap
            /\ sessions' = sessions]_vars

\* A DELETE whose disconnect failed was answered 500 and left the session
\* for a second DELETE, which found it, disconnected it and removed the id.
C32_Witness ==
  \E r1, r2 \in ReqIds :
    /\ reqs[r1].kind = "delete" /\ reqs[r1].pc = "done" /\ reqs[r1].status = 500
    /\ reqs[r2].kind = "delete" /\ reqs[r2].pc = "done" /\ reqs[r2].status = 200
    /\ r1 < r2
    /\ reqs[r2].found = reqs[r1].found
    /\ reqs[r2].sid = reqs[r1].sid
    /\ sessions[reqs[r2].sid] = 0
    /\ ~heap[reqs[r2].obj].c.isConnected


\* The tool calls of the current ask that failed: the call threw, or the
\* server's payload carries isError: true.
FailedToolCalls ==
  {k \in ToolCallsMade : frame.calls[k].status = "failed" \/ frame.calls[k].isError}

\* C33: in the Anthropic-style log the ToolResult of every failed tool call
\* is marked is_error = true, whether the call threw or the server returned
\* a payload carrying isError: true.
C33_FailedResultMarked ==
  variant = "anthropic" =>
    \A k \in FailedToolCalls :
      \E n \in 1..Len(Recorded) :
        /\ Recorded[n].id = frame.calls[k].id
        /\ Recorded[n].is_error


\* The caller invokes an operation other than ask in this step.
OpInvoked == op'.count = op.count + 1

\* The caller invokes ask in this step.
AskInvoked == frame.pc = "idle" /\ frame'.pc # "idle"

\* C34: on a client that is not connected, ask and every guarded operation
\* throw 'Client is not connected' before any effect: the client and its
\* log are as they were, and no request is sent to the provider or to the
\* MCP server.
C34_NotConnectedNoEffect ==
  [][~client.isConnected =>
       /\ (OpInvoked /\ op'.name \in ClientOps) =>
            /\ op'.pc = "threw"
            /\ op'.error = <<"Client is not connected">>
            /\ op'.requests = 0
            /\ client' = client
            /\ providerCalls' = providerCalls
       /\ AskInvoked =>
            /\ frame'.pc = "threw"
            /\ frame'.error = <<"Client is not connected">>
            /\ frame'.calls = <<>>
            /\ client' = client
            /\ providerCalls' = providerCalls]_vars

\* A client that was connected and used is disconnected; then callTool and
\* ask were invoked on it and both threw, with the log as the earlier ask
\* left it.
C34_Witness ==
  /\ ~client.isConnected
  /\ log # <<>>
  /\ op.name = "callTool"
  /\ op.pc = "threw"
  /\ op.error = <<"Client is not connected">>
  /\ frame.pc = "threw"
  /\ frame.error = <<"Client is not connected">>
  /\ frame.base = log


\* Request r is a POST /chat received in this step whose message is
\* missing or not a string.
BadChatReceived(r) ==
  /\ reqs[r].pc = "new"
  /\ reqs'[r].kind = "chat"
  /\ reqs'[r].message \in {<<>>, NotAString}

\* C35: a POST /chat whose message is missing or not a string is answered
\* 400 in the step that receives it and changes nothing else: no session
\* object is created or touched (lastUsed and log included), the session
\* map is as it was, and no provider or tool call is made.
C35_BadMessageRejected ==
  [][\A r \in ReqIds :
       BadChatReceived(r) =>
         /\ reqs'[r].pc = "done"
         /\ reqs'[r].status = 400
         /\ reqs'[r].sent = 1
         /\ reqs'[r].obj = 0
         /\ reqs'[r].f = NewFrame
         /\ heap' = heap
         /\ sessions' = sessions
         /\ providerCalls' = providerCalls
         /\ \A q \in ReqIds \ {r} : reqs'[q] = reqs[q]]_vars

\* A chat request with a message that is not a string, naming an existing
\* session whose lastUsed is older than the timeout, was answered 400 and
\* the session is still expired.
C35_Witness ==
  \E r \in ReqIds :
    /\ reqs[r].kind = "chat"
    /\ reqs[r].message = NotAString
    /\ reqs[r].status = 400
    /\ sessions[reqs[r].sid] # 0
    /\ heap[sessions[reqs[r].sid]].by < r
    /\ heap[sessions[reqs[r].sid]].stale
    /\ heap[sessions[reqs[r].sid]].sweep = ""


\* Request r is a delete, clear, tools or history request received in this
\* step for a session id that is not in the session map.
AbsentSessionNamed(r) ==
  /\ reqs[r].pc = "new"
  /\ reqs'[r].kind \in {"delete", "clear", "tools", "history"}
  /\ sessions[reqs'[r].sid] = 0

\* C36: a delete, clear, tools or history request for a session id that is
\* not in the session map is answered 404 in the step that receives it;
\* the session map and every session object (its client and log included)
\* stay as they were, so no session is created.
C36_AbsentSessionNotFound ==
  [][\A r \in ReqIds :
       AbsentSessionNamed(r) =>
         /\ reqs'[r].pc = "done"
         /\ reqs'[r].status = 404
         /\ reqs'[r].body = <<"Session not found">>
         /\ reqs'[r].sent = 1
         /\ sessions' = sessions
         /\ heap' = heap
         /\ providerCalls' = providerCalls]_vars

\* While a session with a log exists under one id, a history request for
\* another id was answered 404.
C36_Witness ==
  \E r1 \in ReqIds, sid \in SessionIds :
    /\ reqs[r1].kind = "history" /\ reqs[r1].status = 404
    /\ reqs[r1].sid # sid
    /\ sessions[reqs[r1].sid] = 0
    /\ sessions[sid] # 0
    /\ heap[sessions[sid]].c.conversationHistory # <<>>


\* Request r is a chat request answered 200 in this step.
ChatAnswered(r) ==
  /\ reqs'[r].kind = "chat"
  /\ reqs[r].pc # "done"
  /\ reqs'[r].pc = "done"
  /\ reqs'[r].status = 200

\* The tool names of a client's catalog, in catalog order.
CatalogNames(c) == [i \in 1..Len(c.availableTools) |-> c.availableTools[i].name]

\* C37: in a successful chat response, toolsUsed is the list of the names
\* of all tools of the session's catalog in catalog order, whatever tools
\* the ask called, and conversationLength is the length of the session's
\* log as the ask left it.
C37_ResponseFields ==
  [][\A r \in ReqIds :
       ChatAnswered(r) =>
         LET c == heap'[reqs'[r].obj].c IN
         /\ reqs'[r].toolsUsed = CatalogNames(c)
         /\ reqs'[r].conversationLength = Len(c.conversationHistory)]_vars

\* A chat whose ask called no tool was answered with both tools of the
\* catalog in toolsUsed and the length of its two-turn log.
C37_Witness ==
  \E r \in ReqIds :
    /\ reqs[r].kind = "chat"
    /\ reqs[r].status = 200
    /\ reqs[r].toolsUsed = <<KnownTool, "bare">>
    /\ reqs[r].conversationLength = 2
    /\ heap[reqs[r].obj].owners = <<r, r>>


\* The awaited request of the operation called name settles in this step
\* with the outcome pc.
OpEnds(name, pc) == op.name = name /\ op.pc = "awaiting" /\ op'.pc = pc

\* C38: connect on a connected client throws 'Client is already connected',
\* sends nothing and changes nothing; a connect whose transport connect
\* fails throws and leaves the client not connected and otherwise as it
\* was; disconnect on a client that is not connected returns at once, sends
\* nothing and changes nothing; a disconnect that returns leaves the client
\* not connected and changes nothing else, so that a second disconnect
\* changes nothing.
C38_ConnectDisconnectGuards ==
  [][/\ (OpInvoked /\ op'.name = "connect" /\ client.isConnected) =>
          /\ op'.pc = "threw"
          /\ op'.error = <<"Client is already connected">>
          /\ op'.requests = 0
          /\ client' = client
     /\ OpEnds("connect", "threw") =>
          /\ ~client'.isConnected
          /\ client' = client
     /\ (OpInvoked /\ op'.name = "disconnect" /\ ~client.isConnected) =>
          /\ op'.pc = "returned"
          /\ op'.requests = 0
          /\ client' = client
     /\ OpEnds("disconnect", "returned") =>
          client' = [client EXCEPT !.isConnected = FALSE]]_vars

\* A client was connected and disconnected, and a second disconnect
\* returned without a request to the server.
C38_Witness ==
  /\ op.name = "disconnect"
  /\ op.count = 3
  /\ op.pc = "returned"
  /\ op.requests = 0
  /\ ~client.isConnected
  /\ client.availableTools # <<>>

\* C8: the turns two asks append to the log of one session are not
\* interleaved: in every session's log the turns of each request are
\* contiguous.
C8_NoInterleaving ==
  \A o \in 1..Len(heap) :
    \A i, j, k \in 1..Len(heap[o].owners) :
      (i < j /\ j < k /\ heap[o].owners[i] = heap[o].owners[k])
        => heap[o].owners[j] = heap[o].owners[i]

====
